---- MODULE Spec2Model ----
(***************************************************************************)
(* State-machine model of the IncludeKit mock engine (pkgs/go/tests/mock)  *)
(* together with the canonicalization and shape-id functions it calls      *)
(* (pkgs/go/tests/canonicalize.go, shapeid.go) and the TypeScript mock's   *)
(* record extraction.                                                      *)
(*                                                                         *)
(* Conventions.  A Go struct is a TLA+ record that has a key only for the  *)
(* fields that are populated: a nil pointer or nil slice is an absent key  *)
(* (Has(r, k) is the nil test).  A Go pointer held in a variable is a      *)
(* sequence of length 0 (nil) or 1.  A Go map is a function whose DOMAIN   *)
(* is the key set.  An `any` value is a tagged JSON value (JStr, JNum...). *)
(***************************************************************************)
EXTENDS Naturals, Integers, Sequences, FiniteSets, TLC

(***************************************************************************)
(* JSON value model (encoding/json's view of a value)                      *)
(***************************************************************************)
JNull == [t |-> "null"]

JStr(s) == [t |-> "str", s |-> s]

JNum(n) == [t |-> "num", n |-> n]

JBool(b) == [t |-> "bool", b |-> b]

JArr(el) == [t |-> "arr", el |-> el]

\* kv is a sequence of <<key, value>> pairs in insertion order
JObj(kv) == [t |-> "obj", kv |-> kv]

Has(r, k) == k \in DOMAIN r

Range(seq) == {seq[i] : i \in 1..Len(seq)}

\* every JSON object key the model marshals, in ascending byte order
\* (the order sort.Strings and encoding/json use for map keys)
SortedKeys ==
  << "10", "9", "a", "action", "adapterVersion", "after", "and", "b", "before", "case_sensitive",
     "changes", "conditions", "descending", "distinct", "field", "field_path",
     "fields", "first", "group_by", "having", "id", "includes", "kind",
     "last", "limit", "model", "name", "not", "nulls_first", "offset", "op",
     "or", "order_by", "orm", "orm_version", "pagination", "query",
     "sdk_version", "sets", "tx_id", "value", "where" >>

KeyRank(k) == CHOOSE i \in 1..Len(SortedKeys) : SortedKeys[i] = k

KeyLess(a, b) == KeyRank(a) < KeyRank(b)

RECURSIVE InsertKV(_, _)
InsertKV(sorted, p) ==
  IF sorted = <<>> THEN <<p>>
  ELSE IF KeyLess(p[1], Head(sorted)[1]) THEN <<p>> \o sorted
       ELSE <<Head(sorted)>> \o InsertKV(Tail(sorted), p)

RECURSIVE SortKV(_)
SortKV(kv) ==
  IF kv = <<>> THEN <<>> ELSE InsertKV(SortKV(Tail(kv)), Head(kv))

\* canonicalizeValue: objects get their keys sorted, arrays keep their
\* order, scalars are returned unchanged
RECURSIVE canonicalizeValue(_)
canonicalizeValue(v) ==
  CASE v.t = "obj" ->
         LET s == SortKV(v.kv)
         IN JObj([i \in 1..Len(s) |-> <<s[i][1], canonicalizeValue(s[i][2])>>])
    [] v.t = "arr" ->
         JArr([i \in 1..Len(v.el) |-> canonicalizeValue(v.el[i])])
    [] OTHER -> v

RECURSIVE JoinStr(_, _)
JoinStr(parts, sep) ==
  IF parts = <<>> THEN ""
  ELSE IF Len(parts) = 1 THEN parts[1]
       ELSE parts[1] \o sep \o JoinStr(Tail(parts), sep)

Quote(s) == "\"" \o s \o "\""

\* JSON text as the sequence of its tokens
Punct(s) == [k |-> "p", s |-> s]

StrTok(s) == [k |-> "str", s |-> s]

NumTok(n) == [k |-> "num", n |-> n]

LitTok(s) == [k |-> "lit", s |-> s]

\* the characters of one token.  String escaping is not modelled (no
\* modelled string needs it); numbers are integers, written in decimal
TokenText(t) ==
  CASE t.k = "str" -> Quote(t.s)
    [] t.k = "num" -> ToString(t.n)
    [] OTHER -> t.s

RECURSIVE TokensText(_)
TokensText(ts) ==
  IF ts = <<>> THEN "" ELSE TokenText(Head(ts)) \o TokensText(Tail(ts))

RECURSIVE Flatten(_, _)
Flatten(parts, sep) ==
  IF parts = <<>> THEN <<>>
  ELSE IF Len(parts) = 1 THEN parts[1]
       ELSE parts[1] \o sep \o Flatten(Tail(parts), sep)

\* the tokens json.Marshal writes for a value held as
\* map[string]interface{} / []interface{}: compact, map keys in sorted order
RECURSIVE marshalTokens(_)
marshalTokens(v) ==
  CASE v.t = "null" -> <<LitTok("null")>>
    [] v.t = "str"  -> <<StrTok(v.s)>>
    [] v.t = "num"  -> <<NumTok(v.n)>>
    [] v.t = "bool" -> <<LitTok(IF v.b THEN "true" ELSE "false")>>
    [] v.t = "arr"  ->
         <<Punct("[")>>
         \o Flatten([i \in 1..Len(v.el) |-> marshalTokens(v.el[i])], <<Punct(",")>>)
         \o <<Punct("]")>>
    [] v.t = "obj"  ->
         LET s == SortKV(v.kv)
         IN <<Punct("{")>>
            \o Flatten([i \in 1..Len(s) |->
                   <<StrTok(s[i][1]), Punct(":")>> \o marshalTokens(s[i][2])],
                 <<Punct(",")>>)
            \o <<Punct("}")>>

jsonMarshal(v) == TokensText(marshalTokens(v))

Canonicalize(obj) == jsonMarshal(canonicalizeValue(obj))

\* variant: numbers are decoded into a type that keeps even integers only
unmarshalNumber_Lossy(n) == JNum((n \div 2) * 2)

\* the value json.Unmarshal stores for a number token (a float64, which
\* holds every modelled integer)
unmarshalNumber(n) == JNum(n)

IsPunct(t, s) == t.k = "p" /\ t.s = s

\* json.Unmarshal into interface{}, on the tokens of the text: the value
\* read from the front of ts and the tokens left after it.  A repeated
\* object key keeps the last member read
RECURSIVE unmarshalValue(_)
RECURSIVE unmarshalElements(_, _)
RECURSIVE unmarshalMembers(_, _)
unmarshalValue(ts) ==
  LET t == Head(ts)
  IN CASE t.k = "str" -> [v |-> JStr(t.s), rest |-> Tail(ts)]
       [] t.k = "num" -> [v |-> unmarshalNumber(t.n), rest |-> Tail(ts)]
       [] t.k = "lit" ->
            [v |-> (CASE t.s = "null" -> JNull
                      [] t.s = "true" -> JBool(TRUE)
                      [] t.s = "false" -> JBool(FALSE)),
             rest |-> Tail(ts)]
       [] IsPunct(t, "[") -> unmarshalElements(Tail(ts), << >>)
       [] IsPunct(t, "{") -> unmarshalMembers(Tail(ts), << >>)

unmarshalElements(ts, acc) ==
  IF IsPunct(Head(ts), "]") THEN [v |-> JArr(acc), rest |-> Tail(ts)]
  ELSE LET r == unmarshalValue(IF IsPunct(Head(ts), ",") THEN Tail(ts) ELSE ts)
       IN unmarshalElements(r.rest, Append(acc, r.v))

unmarshalMembers(ts, acc) ==
  IF IsPunct(Head(ts), "}") THEN [v |-> JObj(acc), rest |-> Tail(ts)]
  ELSE LET ts1 == IF IsPunct(Head(ts), ",") THEN Tail(ts) ELSE ts
           key == ts1[1].s
           r == unmarshalValue(Tail(Tail(ts1)))
       IN unmarshalMembers(r.rest,
            Append(SelectSeq(acc, LAMBDA p : p[1] # key), <<key, r.v>>))

jsonUnmarshal(ts) == unmarshalValue(ts).v

\* canonicalize of the vector generator: marshal, unmarshal into
\* interface{}, canonicalizeValue, marshal
canonicalizeVector(v) ==
  jsonMarshal(canonicalizeValue(jsonUnmarshal(marshalTokens(v))))

(***************************************************************************)
(* The TypeScript canonicalizer (canonicalize.ts)                          *)
(***************************************************************************)
\* the keys that are array indices to JavaScript (canonical decimal
\* integers), with their numeric value
IndexKeys == {"10", "9"}

IndexOf(k) == CASE k = "9" -> 9 [] k = "10" -> 10

RECURSIVE InsertIndexKV(_, _)
InsertIndexKV(sorted, p) ==
  IF sorted = <<>> THEN <<p>>
  ELSE IF IndexOf(p[1]) < IndexOf(Head(sorted)[1]) THEN <<p>> \o sorted
       ELSE <<Head(sorted)>> \o InsertIndexKV(Tail(sorted), p)

RECURSIVE SortIndexKV(_)
SortIndexKV(kv) ==
  IF kv = <<>> THEN <<>> ELSE InsertIndexKV(SortIndexKV(Tail(kv)), Head(kv))

IsIndexPair(p) == p[1] \in IndexKeys

IsNamePair(p) == p[1] \notin IndexKeys

\* the own-property order of an object whose properties were created in the
\* order kv: array-index keys in ascending numeric order, then the other
\* keys in creation order
PropertyOrder(kv) ==
  SortIndexKV(SelectSeq(kv, IsIndexPair)) \o SelectSeq(kv, IsNamePair)

\* canonicalReplacer: a non-array object is rebuilt by creating its keys in
\* sorted order (Array.prototype.sort: UTF-16 code unit order, the byte
\* order for the ASCII keys modelled); any other value is returned as it is
canonicalReplacer(value) ==
  IF value.t = "obj" THEN JObj(PropertyOrder(SortKV(PropertyOrder(value.kv))))
  ELSE value

\* JSON.stringify(obj, canonicalReplacer): the replacer is applied to every
\* value before it is written, and an object is written in own-property
\* order
RECURSIVE stringifyTokens(_)
stringifyTokens(value) ==
  LET v == canonicalReplacer(value)
  IN CASE v.t = "null" -> <<LitTok("null")>>
       [] v.t = "str"  -> <<StrTok(v.s)>>
       [] v.t = "num"  -> <<NumTok(v.n)>>
       [] v.t = "bool" -> <<LitTok(IF v.b THEN "true" ELSE "false")>>
       [] v.t = "arr"  ->
            <<Punct("[")>>
            \o Flatten([i \in 1..Len(v.el) |-> stringifyTokens(v.el[i])], <<Punct(",")>>)
            \o <<Punct("]")>>
       [] v.t = "obj"  ->
            <<Punct("{")>>
            \o Flatten([i \in 1..Len(v.kv) |->
                   <<StrTok(v.kv[i][1]), Punct(":")>> \o stringifyTokens(v.kv[i][2])],
                 <<Punct(",")>>)
            \o <<Punct("}")>>

canonicalize(obj) == TokensText(stringifyTokens(obj))

(***************************************************************************)
(* Marshalling of the typed structs (types package, json tags)             *)
(***************************************************************************)
\* <<Go field, json key, element type, omitempty>> per struct, in
\* declaration order
StructFields(type) ==
  CASE type = "Statement" ->
         << <<"Query", "query", "Query", TRUE>>,
            <<"Pagination", "pagination", "Pagination", TRUE>>,
            <<"GroupBy", "group_by", "[]string", TRUE>>,
            <<"Having", "having", "Filter", TRUE>>,
            <<"Includes", "includes", "[]Include", TRUE>>,
            <<"ORMVersion", "orm_version", "string", TRUE>>,
            <<"SDKVersion", "sdk_version", "string", TRUE>> >>
    [] type = "Query" ->
         << <<"Model", "model", "string", FALSE>>,
            <<"Fields", "fields", "[]string", TRUE>>,
            <<"Where", "where", "Filter", TRUE>>,
            <<"OrderBy", "order_by", "[]OrderBy", TRUE>>,
            <<"Limit", "limit", "int", TRUE>>,
            <<"Offset", "offset", "int", TRUE>>,
            <<"Distinct", "distinct", "[]string", TRUE>> >>
    [] type = "Include" ->
         << <<"Query", "query", "Query", TRUE>>,
            <<"Kind", "kind", "string", TRUE>>,
            <<"Includes", "includes", "[]Include", TRUE>> >>
    [] type = "Filter" ->
         << <<"And", "and", "[]Filter", TRUE>>,
            <<"Or", "or", "[]Filter", TRUE>>,
            <<"Not", "not", "Filter", TRUE>>,
            <<"Conditions", "conditions", "[]Condition", TRUE>> >>
    [] type = "Condition" ->
         << <<"Field", "field", "string", FALSE>>,
            <<"FieldPath", "field_path", "[]string", TRUE>>,
            <<"Op", "op", "string", FALSE>>,
            <<"Value", "value", "any", TRUE>> >>
    [] type = "OrderBy" ->
         << <<"Field", "field", "string", FALSE>>,
            <<"Descending", "descending", "bool", TRUE>>,
            <<"NullsFirst", "nulls_first", "bool", TRUE>>,
            <<"CaseSensitive", "case_sensitive", "bool", TRUE>> >>
    [] type = "Pagination" ->
         << <<"First", "first", "int", TRUE>>,
            <<"Last", "last", "int", TRUE>>,
            <<"After", "after", "string", TRUE>>,
            <<"Before", "before", "string", TRUE>> >>

IsStruct(type) ==
  type \in {"Statement", "Query", "Include", "Filter", "Condition", "OrderBy",
            "Pagination"}

\* the slices declared without a pointer: omitempty drops them when empty
PlainSlice(type, field) ==
  <<type, field>> \in {<<"Statement", "Includes">>, <<"Include", "Includes">>,
                       <<"Condition", "FieldPath">>}

ElemType(type) ==
  CASE type = "[]string" -> "string"
    [] type = "[]Include" -> "Include"
    [] type = "[]Filter" -> "Filter"
    [] type = "[]Condition" -> "Condition"
    [] type = "[]OrderBy" -> "OrderBy"

RECURSIVE MarshalFields(_, _, _)
RECURSIVE MarshalValue(_, _)
MarshalFields(type, r, fs) ==
  IF fs = <<>> THEN <<>>
  ELSE LET f == Head(fs)
           omit == \/ f[4] /\ ~Has(r, f[1])
                   \/ f[4] /\ PlainSlice(type, f[1]) /\ r[f[1]] = <<>>
       IN (IF omit THEN <<>> ELSE << <<f[2], MarshalValue(f[3], r[f[1]])>> >>)
          \o MarshalFields(type, r, Tail(fs))

\* json.Marshal followed by json.Unmarshal into interface{}: the value as
\* a generic JSON tree
MarshalValue(type, v) ==
  CASE type = "string" -> JStr(v)
    [] type = "int" -> JNum(v)
    [] type = "bool" -> JBool(v)
    [] type = "any" -> v
    [] IsStruct(type) -> JObj(MarshalFields(type, v, StructFields(type)))
    [] OTHER -> JArr([i \in 1..Len(v) |-> MarshalValue(ElemType(type), v[i])])

RECURSIVE DeleteKey(_, _)
DeleteKey(kv, k) ==
  IF kv = <<>> THEN <<>>
  ELSE (IF Head(kv)[1] = k THEN <<>> ELSE <<Head(kv)>>) \o DeleteKey(Tail(kv), k)

\* CanonicalizeQueryShape (Go): marshal, unmarshal into a map, delete the
\* keys "orm" and "adapterVersion", canonicalize
CanonicalizeQueryShape(shape) ==
  LET m == MarshalValue("Statement", shape)
  IN Canonicalize(JObj(DeleteKey(DeleteKey(m.kv, "orm"), "adapterVersion")))

(***************************************************************************)
(* Validators (package tests)                                              *)
(*                                                                         *)
(* A pointer argument is a sequence of length 0 (nil) or 1.  An error      *)
(* result is << >> (nil) or <<[Message, Path]>>.                            *)
(***************************************************************************)
ShapeIDPrefix == <<"s", "_">>

ShapeIDLength == 66

ShapeIDHexLength == 64

NoError == << >>

ValidationError(message, path) == << [Message |-> message, Path |-> path] >>

\* the error a sequence of checks returns: that of the first check that
\* fails (every later check is skipped by the early return)
FirstError(errs) ==
  IF \A i \in 1..Len(errs) : errs[i] = NoError THEN NoError
  ELSE errs[CHOOSE i \in 1..Len(errs) :
              errs[i] # NoError /\ \A j \in 1..(i - 1) : errs[j] = NoError]

\* "[i]" for the loop index of the i-th element (indices start at 0)
Index(i) == "[" \o ToString(i - 1) \o "]"

\* len() of a slice field that may be nil
SliceLen(r, k) == IF Has(r, k) THEN Len(r[k]) ELSE 0

\* the strings the validators slice, as the sequence of their characters
ByteStrings ==
  { << >>, <<"e", "q">>, <<"b", "o", "g", "u", "s">>,
    <<"c", "u", "s", "t", "o", "m">>,
    <<"c", "u", "s", "t", "o", "m", ":">>,
    <<"c", "u", "s", "t", "o", "m", ":", "n", "e", "a", "r">>,
    <<"c", "u", "s", "t", "o", "m", ":", "x">>,
    <<"C", "u", "s", "t", "o", "m", ":", "x">>,
    <<"E", "Q">>, <<"e", "q", "u", "a", "l", "s">> }

Bytes(str) == CHOOSE c \in ByteStrings : JoinStr(c, "") = str

validOps ==
  { "eq", "ne", "in", "notIn", "isNull",
    "gt", "gte", "lt", "lte", "between",
    "contains", "startsWith", "endsWith",
    "like", "ilike", "regex",
    "has", "hasSome", "hasEvery", "jsonContains",
    "lenEq", "lenGt", "lenLt", "exists" }

\* variant: the escape prefix is matched without its colon
validateFilterAtom_LoosePrefix(atom, path) ==
  LET isCustomOp == /\ Len(Bytes(atom.Op)) >= 6
                    /\ SubSeq(Bytes(atom.Op), 1, 6) = <<"c", "u", "s", "t", "o", "m">>
  IN FirstError(<<
       IF atom.Field = ""
       THEN ValidationError("field must be a non-empty string", path \o ".field")
       ELSE NoError,
       IF atom.Op = ""
       THEN ValidationError("op must be a non-empty string", path \o ".op")
       ELSE NoError,
       IF atom.Op \notin validOps /\ ~isCustomOp
       THEN ValidationError("invalid operator: " \o atom.Op, path \o ".op")
       ELSE NoError >>)

validateFilterAtom(atom, path) ==
  LET isCustomOp == /\ Len(Bytes(atom.Op)) >= 7
                    /\ SubSeq(Bytes(atom.Op), 1, 7) = <<"c", "u", "s", "t", "o", "m", ":">>
  IN FirstError(<<
       IF atom.Field = ""
       THEN ValidationError("field must be a non-empty string", path \o ".field")
       ELSE NoError,
       IF atom.Op = ""
       THEN ValidationError("op must be a non-empty string", path \o ".op")
       ELSE NoError,
       IF atom.Op \notin validOps /\ ~isCustomOp
       THEN ValidationError("invalid operator: " \o atom.Op, path \o ".op")
       ELSE NoError >>)

RECURSIVE validateFilterSpec(_, _)
validateFilterSpec(spec, path) ==
  FirstError(
    (IF Has(spec, "And")
     THEN [i \in 1..Len(spec.And) |->
             validateFilterSpec(spec.And[i], path \o ".and" \o Index(i))]
     ELSE << >>)
    \o (IF Has(spec, "Or")
        THEN [i \in 1..Len(spec.Or) |->
                validateFilterSpec(spec.Or[i], path \o ".or" \o Index(i))]
        ELSE << >>)
    \o (IF Has(spec, "Not")
        THEN <<validateFilterSpec(spec.Not, path \o ".not")>> ELSE << >>)
    \o (IF Has(spec, "Conditions")
        THEN [i \in 1..Len(spec.Conditions) |->
                validateFilterAtom(spec.Conditions[i], path \o ".atoms" \o Index(i))]
        ELSE << >>))

validateOrderBy(ob, path) ==
  IF ob.Field = ""
  THEN ValidationError("field must be a non-empty string", path \o ".field")
  ELSE NoError

\* variant: only first together with last counts as mixing directions
validatePagination_FirstLastOnly(p, path) ==
  FirstError(<<
    IF Has(p, "First") /\ Has(p, "Last")
    THEN ValidationError(
           "cannot mix forward pagination (first/after) with backward pagination (last/before)",
           path)
    ELSE NoError,
    IF Has(p, "First") /\ p.First <= 0
    THEN ValidationError("first must be a positive integer", path \o ".first")
    ELSE NoError,
    IF Has(p, "Last") /\ p.Last <= 0
    THEN ValidationError("last must be a positive integer", path \o ".last")
    ELSE NoError >>)

validatePagination(p, path) ==
  LET hasForward == Has(p, "First") \/ Has(p, "After")
      hasBackward == Has(p, "Last") \/ Has(p, "Before")
  IN FirstError(<<
       IF hasForward /\ hasBackward
       THEN ValidationError(
              "cannot mix forward pagination (first/after) with backward pagination (last/before)",
              path)
       ELSE NoError,
       IF Has(p, "First") /\ p.First <= 0
       THEN ValidationError("first must be a positive integer", path \o ".first")
       ELSE NoError,
       IF Has(p, "Last") /\ p.Last <= 0
       THEN ValidationError("last must be a positive integer", path \o ".last")
       ELSE NoError >>)

validateQuery(q, path) ==
  FirstError(
    << IF q.Model = ""
       THEN ValidationError("model must be a non-empty string", path \o ".model")
       ELSE NoError,
       IF Has(q, "Where") THEN validateFilterSpec(q.Where, path \o ".where")
       ELSE NoError >>
    \o (IF Has(q, "OrderBy")
        THEN [i \in 1..Len(q.OrderBy) |->
                validateOrderBy(q.OrderBy[i], path \o ".orderBy" \o Index(i))]
        ELSE << >>)
    \o << IF Has(q, "Limit") /\ q.Limit < 0
          THEN ValidationError("limit must be non-negative", path \o ".limit")
          ELSE NoError,
          IF Has(q, "Offset") /\ q.Offset < 0
          THEN ValidationError("offset must be non-negative", path \o ".offset")
          ELSE NoError >>
    \o (IF Has(q, "Distinct")
        THEN [i \in 1..Len(q.Distinct) |->
                IF q.Distinct[i] = ""
                THEN ValidationError("distinct field must be non-empty",
                                     path \o ".distinct" \o Index(i))
                ELSE NoError]
        ELSE << >>))

\* one include without the includes nested in it
validateIncludeNode(include, path) ==
  << IF Has(include, "Query") THEN validateQuery(include.Query, path \o ".query")
     ELSE NoError,
     IF Has(include, "Kind") /\ include.Kind \notin {"some", "every", "none"}
     THEN ValidationError("kind must be 'some', 'every', or 'none'", path \o ".kind")
     ELSE NoError >>

RECURSIVE validateInclude(_, _)

\* variant: the includes nested in an include are not visited
validateInclude_Shallow(include, path) ==
  FirstError(validateIncludeNode(include, path))

validateInclude(include, path) ==
  FirstError(
    validateIncludeNode(include, path)
    \o (IF Has(include, "Includes")
        THEN [i \in 1..Len(include.Includes) |->
                validateInclude(include.Includes[i], path \o ".includes" \o Index(i))]
        ELSE << >>))

ValidateQueryShape(stmt) ==
  IF stmt = << >> THEN ValidationError("Statement cannot be nil", "statement")
  ELSE LET st == stmt[1]
       IN FirstError(
            << IF Has(st, "Query") THEN validateQuery(st.Query, "statement.query")
               ELSE NoError >>
            \o (IF Has(st, "GroupBy")
                THEN [i \in 1..Len(st.GroupBy) |->
                        IF st.GroupBy[i] = ""
                        THEN ValidationError("groupBy field must be non-empty",
                                             "statement.groupBy" \o Index(i))
                        ELSE NoError]
                ELSE << >>)
            \o << IF Has(st, "Having")
                  THEN validateFilterSpec(st.Having, "statement.having") ELSE NoError,
                  IF Has(st, "Pagination")
                  THEN validatePagination(st.Pagination, "statement.pagination")
                  ELSE NoError >>
            \o (IF Has(st, "Includes")
                THEN [i \in 1..Len(st.Includes) |->
                        validateInclude(st.Includes[i], "statement.includes" \o Index(i))]
                ELSE << >>))

\* variant: a delete may carry sets
ActionChecks_DeleteWithSets(change, path) ==
  CASE change.Action = "insert" ->
         << IF SliceLen(change, "Sets") = 0
            THEN ValidationError("insert requires non-empty set", path \o ".set")
            ELSE NoError,
            IF Has(change, "Where")
            THEN ValidationError("insert cannot have where clause", path \o ".where")
            ELSE NoError >>
    [] change.Action = "update" ->
         << IF SliceLen(change, "Sets") = 0
            THEN ValidationError("update requires non-empty set", path \o ".set")
            ELSE NoError,
            IF ~Has(change, "Where")
            THEN ValidationError("update requires where clause", path \o ".where")
            ELSE NoError >>
    [] change.Action = "delete" ->
         << IF ~Has(change, "Where")
            THEN ValidationError("delete requires where clause", path \o ".where")
            ELSE NoError >>
    [] OTHER -> << >>

\* the checks of the switch on change.Action
ActionChecks(change, path) ==
  CASE change.Action = "insert" ->
         << IF SliceLen(change, "Sets") = 0
            THEN ValidationError("insert requires non-empty set", path \o ".set")
            ELSE NoError,
            IF Has(change, "Where")
            THEN ValidationError("insert cannot have where clause", path \o ".where")
            ELSE NoError >>
    [] change.Action = "update" ->
         << IF SliceLen(change, "Sets") = 0
            THEN ValidationError("update requires non-empty set", path \o ".set")
            ELSE NoError,
            IF ~Has(change, "Where")
            THEN ValidationError("update requires where clause", path \o ".where")
            ELSE NoError >>
    [] change.Action = "delete" ->
         << IF SliceLen(change, "Sets") > 0
            THEN ValidationError("delete cannot have set clause", path \o ".set")
            ELSE NoError,
            IF ~Has(change, "Where")
            THEN ValidationError("delete requires where clause", path \o ".where")
            ELSE NoError >>
    [] OTHER -> << >>

validateDataChange(change, path) ==
  FirstError(
    << IF change.Model = ""
       THEN ValidationError("model must be non-empty", path \o ".model")
       ELSE NoError,
       IF change.Action \notin {"insert", "update", "delete"}
       THEN ValidationError(
              "action must be 'insert', 'update', or 'delete', got: " \o change.Action,
              path \o ".action")
       ELSE NoError >>
    \o ActionChecks(change, path)
    \o [j \in 1..SliceLen(change, "Sets") |->
          IF change.Sets[j].Field = ""
          THEN ValidationError("set clause field must be non-empty",
                               path \o ".set" \o Index(j) \o ".field")
          ELSE NoError]
    \o << IF Has(change, "Where") THEN validateFilterSpec(change.Where, path \o ".where")
          ELSE NoError >>)

ValidateMutationEvent(event) ==
  IF event = << >> THEN ValidationError("Mutation cannot be nil", "mutation")
  ELSE IF ~Has(event[1], "Changes")
       THEN ValidationError("changes must be an array", "mutation.changes")
       ELSE FirstError([i \in 1..Len(event[1].Changes) |->
                          validateDataChange(event[1].Changes[i],
                                             "mutation.changes" \o Index(i))])

\* deps.ShapeID is held as the sequence of its characters
ValidateDependencies(deps) ==
  IF deps = << >> THEN ValidationError("Dependencies cannot be nil", "dependencies")
  ELSE LET d == deps[1]
       IN FirstError(<<
            IF \/ d.ShapeID = << >>
               \/ Len(d.ShapeID) # ShapeIDLength
               \/ SubSeq(d.ShapeID, 1, Len(ShapeIDPrefix)) # ShapeIDPrefix
            THEN ValidationError("shapeId must match pattern ^s_[0-9a-f]{64}$",
                                 "dependencies.shapeId")
            ELSE NoError,
            IF ~Has(d, "Records")
            THEN ValidationError("records must be an object", "dependencies.records")
            ELSE NoError,
            IF ~Has(d, "Filters")
            THEN ValidationError("filterBounds must be an array", "dependencies.filterBounds")
            ELSE NoError,
            IF ~Has(d, "Includes")
            THEN ValidationError("relationBounds must be an array",
                                 "dependencies.relationBounds")
            ELSE NoError >>)

(***************************************************************************)
(* Bounded inputs                                                          *)
(***************************************************************************)
\* most fingerprints the store may hold at once (AddQuery is disabled for a
\* new fingerprint beyond it)
MaxShapes == 2

\* the number of goroutines calling the engine at the same time
NumThreads == 2

Threads == 1..NumThreads

CondPublished == [Field |-> "published", Op |-> "eq", Value |-> JBool(TRUE)]

CondCustom == [Field |-> "location", Op |-> "custom:near", Value |-> JStr("x")]

StmtUsers == [Query |-> [Model |-> "users"]]

StmtPostsEq ==
  [Query |-> [Model |-> "posts", Where |-> [Conditions |-> <<CondPublished>>]]]

\* a custom:* operator, below an `and` combinator
StmtPostsCustom ==
  [Query |-> [Model |-> "posts",
              Where |-> [And |-> << [Conditions |-> <<CondCustom>>] >>]]]

InclSomePosts == [Query |-> [Model |-> "posts"], Kind |-> "some"]

InclNonePosts == [Query |-> [Model |-> "posts"], Kind |-> "none"]

\* a relation-loading include (no kind) that nests a relation filter
InclLoadComments ==
  [Query |-> [Model |-> "comments"], Includes |-> <<InclNonePosts>>]

StmtIncl ==
  [Query |-> [Model |-> "users"],
   Includes |-> <<InclLoadComments, InclSomePosts>>]

StmtNoQuery == [Pagination |-> [First |-> 10]]

Statements == {StmtUsers, StmtPostsEq, StmtPostsCustom, StmtIncl, StmtNoQuery}

\* a grouping statement with a having filter
StmtGroup ==
  [Query |-> [Model |-> "posts"],
   GroupBy |-> <<"author_id">>,
   Having |-> [Conditions |-> <<CondPublished>>]]

\* StmtUsers with the diagnostic fields populated
StmtUsersORM == [Query |-> [Model |-> "users"], ORMVersion |-> "prisma@5.0.0"]

StmtUsersDiag ==
  [Query |-> [Model |-> "users"], ORMVersion |-> "prisma@5.1.0",
   SDKVersion |-> "0.1.0"]

\* the statements of the fingerprinting and grouping scenarios
ShapeStatements == {StmtUsers, StmtUsersORM, StmtUsersDiag, StmtGroup}

\* most entries the call log may hold before a call that logs is disabled
MaxCalls == 4

\* most keys of a JSON object handed to the canonicalizers
MaxKeys == 3

CanonKeys == {"a", "b", "10", "9"}

\* the objects nested below the top level: the same members in either
\* order, or none
InnerObjects ==
  { JObj(<< >>),
    JObj(<< <<"a", JNum(1)>>, <<"b", JStr("x")>> >>),
    JObj(<< <<"b", JStr("x")>>, <<"a", JNum(1)>> >>) }

\* the value a top-level key carries: an object, an array holding an
\* object between two numbers, a boolean, null
CanonMember(k, inner) ==
  CASE k = "a" -> inner
    [] k = "b" -> JArr(<<JNum(2), inner, JNum(1)>>)
    [] k = "10" -> JBool(TRUE)
    [] k = "9" -> JNull

\* the key orders of an object: every sequence of distinct keys
KeyOrders ==
  {q \in UNION {[1..n -> CanonKeys] : n \in 0..MaxKeys} :
     \A i, j \in DOMAIN q : q[i] = q[j] => i = j}

CanonValues ==
  {JObj([i \in DOMAIN q |-> <<q[i], CanonMember(q[i], inner)>>]) :
     q \in KeyOrders, inner \in InnerObjects}
  \cup {JNull, JNum(0), JStr("x"), JArr(<<JNum(2), JNum(1)>>)}

Models == {"users", "posts", "comments"}

Row(kv) == JObj(kv)

\* result hints: model name -> rows returned
HintUsers ==
  [m \in {"users"} |->
     << Row(<< <<"id", JStr("1")>>, <<"name", JStr("Alice")>> >>),
        Row(<< <<"id", JStr("2")>>, <<"name", JStr("Bob")>> >>) >>]

HintPostsUsers ==
  [m \in {"posts", "users"} |->
     IF m = "posts" THEN << Row(<< <<"id", JStr("1")>> >>) >>
     ELSE << Row(<< <<"id", JStr("7")>> >>) >>]

\* users: a row that carries no id and a row that is not an object;
\* posts: a row whose id is null and a row whose id is a number
HintMixed ==
  [m \in {"users", "posts"} |->
     IF m = "users" THEN << Row(<< <<"name", JStr("Carol")>> >>), JStr("row") >>
     ELSE << Row(<< <<"id", JNull>> >>), Row(<< <<"id", JNum(3)>> >>) >>]

Hints == {HintUsers, HintPostsUsers, HintMixed}

Requests ==
  {[Shape |-> s] : s \in Statements}
  \cup {[Shape |-> s, ResultHint |-> h] : s \in Statements, h \in Hints}

ShapeRequests ==
  {[Shape |-> s] : s \in ShapeStatements}
  \cup {[Shape |-> s, ResultHint |-> HintPostsUsers] : s \in ShapeStatements}

\* what the concurrent callers ask AddQuery to store
ConcurrentRequests ==
  {[Shape |-> s] : s \in {StmtUsers, StmtPostsEq}}
  \cup {[Shape |-> s, ResultHint |-> h] :
          s \in {StmtUsers, StmtPostsEq}, h \in {HintUsers, HintPostsUsers}}

ChangeUpdate(model) ==
  [Model |-> model, Action |-> "update",
   Sets |-> << [Field |-> "name", Value |-> JStr("n")] >>,
   Where |-> [Conditions |-> << [Field |-> "id", Op |-> "eq", Value |-> JStr("1")] >>]]

ChangeInsert(model) ==
  [Model |-> model, Action |-> "insert",
   Sets |-> << [Field |-> "name", Value |-> JStr("n")] >>]

MutUsers == [Changes |-> <<ChangeUpdate("users")>>]

MutPosts == [Changes |-> <<ChangeUpdate("posts")>>]

MutCommentsUsers == [Changes |-> <<ChangeUpdate("comments"), ChangeInsert("users")>>]

Mutations == {MutUsers, MutPosts, MutCommentsUsers}

AppSchemas ==
  { [Version |-> 1,
     Models |-> << [Name |-> "users", ID |-> [Kind |-> "string"]],
                   [Name |-> "posts", ID |-> [Kind |-> "string"]] >>] }

\* the generator of TestComputeShapeIDCustomGenerator
ConstGenerator(stmt) == "s_custom_test"

Generators == {<<>>, <<"const">>}

ApplyGenerator(g, stmt) == ConstGenerator(stmt)

(***************************************************************************)
(* Shape ids (shapeid.go, shapeId.ts)                                      *)
(***************************************************************************)
\* the strings the model takes the digest of: the empty string, two short
\* JSON texts and the canonical string of every modelled statement
HashedStatements ==
  << StmtUsers, StmtPostsEq, StmtPostsCustom, StmtIncl, StmtNoQuery,
     StmtGroup, StmtUsersORM, StmtUsersDiag >>

HashInputs ==
  << "", "null", "{}" >>
  \o [i \in 1..Len(HashedStatements) |-> CanonicalizeQueryShape(HashedStatements[i])]

\* sha256.Sum256 as a collision-free function into [32]byte: the digest of
\* the n-th string of HashInputs is a fixed pattern of 32 bytes that
\* differs from the pattern of every other string
Sum256(s) ==
  LET n == CHOOSE i \in 1..Len(HashInputs) : HashInputs[i] = s
  IN [k \in 1..32 |-> ((2 * k + 1) * n + 7 * k) % 256]

HexDigits ==
  << "0", "1", "2", "3", "4", "5", "6", "7", "8", "9", "a", "b", "c", "d", "e", "f" >>

\* variant: each byte is written without its leading zero
HexByte_Unpadded(b) ==
  IF b < 16 THEN <<HexDigits[b + 1]>>
  ELSE <<HexDigits[(b \div 16) + 1], HexDigits[(b % 16) + 1]>>

\* the two characters %x (and digest('hex')) writes for one byte
HexByte(b) == <<HexDigits[(b \div 16) + 1], HexDigits[(b % 16) + 1]>>

RECURSIVE HexChars(_)
HexChars(bytes) ==
  IF bytes = << >> THEN << >> ELSE HexByte(Head(bytes)) \o HexChars(Tail(bytes))

\* the characters of fmt.Sprintf("s_%x", hash)
ShapeIDChars(canonicalJSON) == <<"s", "_">> \o HexChars(Sum256(canonicalJSON))

Sha256Hex(s) == JoinStr(HexChars(Sum256(s)), "")

ComputeShapeID(canonicalJSON) == JoinStr(ShapeIDChars(canonicalJSON), "")

\* computeShapeId (TypeScript): 's_' + digest('hex')
computeShapeId(canonicalJson) == "s_" \o Sha256Hex(canonicalJson)

ComputeQueryShapeID(shape) == ComputeShapeID(CanonicalizeQueryShape(shape))

\* the fingerprint of every modelled statement under the real computation
RealShapeID == [s \in Statements \cup ShapeStatements |-> ComputeQueryShapeID(s)]

EvictLists == { << >>, <<RealShapeID[StmtPostsEq], "s_custom_1">> }

ShapeIDs ==
  {RealShapeID[s] : s \in Statements} \cup {"s_custom_test", "s_unknown"}

ExplainRequests == [Mutation : Mutations, ShapeID : ShapeIDs]

(***************************************************************************)
(* Engine state (MockEngine)                                               *)
(***************************************************************************)
VARIABLES
  schema,   \* m.schema: <<>> (nil) or <<AppSchema>>
  shapes,   \* m.shapes: fingerprint -> Dependencies
  calls,    \* m.calls: per-method call log
  config,   \* m.config
  ret,      \* the last call: [op, req, resp, before]; `before` is the schema
            \* and store the call found when it acquired the lock
  mu,       \* m.mu: the writer holding it (0: none) and the readers
  th        \* the position of each concurrent caller inside its call

vars == <<schema, shapes, calls, config, ret, mu, th>>

\* the zero value of sync.RWMutex
Unlocked == [writer |-> 0, readers |-> {}]

EmptyMap == << >>

NoCalls ==
  [SetSchema |-> << >>, ComputeShapeID |-> << >>, AddQuery |-> << >>,
   Invalidate |-> << >>, ExplainInvalidation |-> << >>, Reset |-> << >>,
   GetVersion |-> << >>]

\* the zero value of types.Dependencies
ZeroDependencies ==
  [ShapeID |-> "", Records |-> EmptyMap, Filters |-> << >>, Includes |-> << >>]

(***************************************************************************)
(* Helper methods                                                          *)
(***************************************************************************)
\* variant: the fingerprint is salted with the version of the schema in
\* force
computeShapeIDInternal_SchemaSalted(stmt) ==
  LET shapeID == IF config.ShapeIDGenerator # << >>
                 THEN ApplyGenerator(config.ShapeIDGenerator[1], stmt)
                 ELSE RealShapeID[stmt]
  IN IF schema = << >> THEN shapeID ELSE shapeID \o "@" \o ToString(schema[1].Version)

computeShapeIDInternal(stmt) ==
  IF config.ShapeIDGenerator # << >>
  THEN ApplyGenerator(config.ShapeIDGenerator[1], stmt)
  ELSE RealShapeID[stmt]

ObjHas(o, k) == \E i \in 1..Len(o.kv) : o.kv[i][1] = k

ObjGet(o, k) == o.kv[CHOOSE i \in 1..Len(o.kv) : o.kv[i][1] = k][2]

\* fmt.Sprintf("%v", id)
SprintfV(v) ==
  CASE v.t = "str" -> v.s
    [] v.t = "num" -> ToString(v.n)
    [] v.t = "bool" -> IF v.b THEN "true" ELSE "false"
    [] v.t = "null" -> "<nil>"

\* the ids loop of extractRecords
RECURSIVE RowIDs(_)
RowIDs(rows) ==
  IF rows = << >> THEN << >>
  ELSE LET row == Head(rows)
       IN (IF row.t = "obj" /\ ObjHas(row, "id")
           THEN <<SprintfV(ObjGet(row, "id"))>> ELSE << >>)
          \o RowIDs(Tail(rows))

\* variant: the id list is stored even when it is empty
extractRecords_KeepEmpty(req) ==
  IF ~Has(req, "ResultHint") \/ ~Has(req.Shape, "Query") THEN EmptyMap
  ELSE LET model == req.Shape.Query.Model
       IN IF model \in DOMAIN req.ResultHint
          THEN model :> RowIDs(req.ResultHint[model])
          ELSE EmptyMap

extractRecords(req) ==
  IF ~Has(req, "ResultHint") \/ ~Has(req.Shape, "Query") THEN EmptyMap
  ELSE LET model == req.Shape.Query.Model
       IN IF model \in DOMAIN req.ResultHint
          THEN LET ids == RowIDs(req.ResultHint[model])
               IN IF Len(ids) > 0 THEN model :> ids ELSE EmptyMap
          ELSE EmptyMap

extractFilters(stmt) ==
  (IF Has(stmt, "Query") /\ Has(stmt.Query, "Where")
   THEN <<stmt.Query.Where>> ELSE << >>)
  \o (IF Has(stmt, "Having") THEN <<stmt.Having>> ELSE << >>)

filterReferencesModel(filter, model) ==
  Has(filter, "Conditions") /\ Len(filter.Conditions) > 0

\* variant: inserts are taken not to affect rows already tracked
shouldInvalidate_SkipInsert(change, deps) ==
  LET behavior == IF config.EvictBehavior = "" THEN "conservative"
                  ELSE config.EvictBehavior
  IN IF behavior = "conservative"
     THEN change.Action # "insert" /\ change.Model \in DOMAIN deps.Records
     ELSE FALSE

\* variant: any tracked record makes the shape evictable, whatever the
\* change's model
shouldInvalidate_AnyTracked(change, deps) ==
  LET behavior == IF config.EvictBehavior = "" THEN "conservative"
                  ELSE config.EvictBehavior
  IN IF behavior = "conservative"
     THEN DOMAIN deps.Records # {}
     ELSE FALSE

shouldInvalidate(change, deps) ==
  LET behavior == IF config.EvictBehavior = "" THEN "conservative"
                  ELSE config.EvictBehavior
  IN IF behavior = "conservative"
     THEN change.Model \in DOMAIN deps.Records
     ELSE FALSE

RECURSIVE DedupFrom(_, _)
DedupFrom(input, seen) ==
  IF input = << >> THEN << >>
  ELSE IF Head(input) \in seen THEN DedupFrom(Tail(input), seen)
       ELSE <<Head(input)>> \o DedupFrom(Tail(input), seen \cup {Head(input)})

deduplicateStrings(input) == DedupFrom(input, {})

\* variant: a record already stored for the fingerprint keeps its ids, the
\* new ones are appended
StoreShape_MergeRecords(shapeID, deps) ==
  IF shapeID \notin DOMAIN shapes THEN (shapeID :> deps) @@ shapes
  ELSE LET old == shapes[shapeID].Records
           merged == [M \in DOMAIN old \cup DOMAIN deps.Records |->
                        (IF M \in DOMAIN old THEN old[M] ELSE << >>)
                        \o (IF M \in DOMAIN deps.Records THEN deps.Records[M] ELSE << >>)]
       IN (shapeID :> [deps EXCEPT !.Records = merged]) @@ shapes

\* the value the store takes when AddQuery assigns m.shapes[shapeID] = deps
StoreShape(shapeID, deps) == (shapeID :> deps) @@ shapes

\* the Dependencies AddQuery builds
BuildDependencies(req, shapeID) ==
  [ShapeID |-> shapeID,
   Records |-> extractRecords(req),
   Filters |-> extractFilters(req.Shape),
   Includes |-> IF Has(req.Shape, "Includes") THEN req.Shape.Includes ELSE << >>]

\* every order in which a map range can visit the set S
Orderings(S) ==
  {o \in [1..Cardinality(S) -> S] : \A i, j \in 1..Cardinality(S) : o[i] = o[j] => i = j}

\* the fingerprints the scan of Invalidate appends
ScanEvict(mutation) ==
  {shapeID \in DOMAIN shapes :
     \E i \in 1..Len(mutation.Changes) :
        shouldInvalidate(mutation.Changes[i], shapes[shapeID])}

\* the evict lists Invalidate can return
\* variant: of the custom list, only the fingerprints that are stored
InvalidateEvict_StoredOnly(mutation) ==
  IF config.EvictBehavior = "custom" /\ Len(config.CustomEvictList) > 0
  THEN {SelectSeq(config.CustomEvictList, LAMBDA f : f \in DOMAIN shapes)}
  ELSE Orderings(ScanEvict(mutation))

InvalidateEvict(mutation) ==
  IF config.EvictBehavior = "custom" /\ Len(config.CustomEvictList) > 0
  THEN {config.CustomEvictList}
  ELSE Orderings(ScanEvict(mutation))

\* the reasons one iteration of the loop over req.Mutation.Changes appends
ChangeReasons(change, deps) ==
  (IF change.Model \in DOMAIN deps.Records /\ Len(deps.Records[change.Model]) > 0
   THEN <<"record_membership">> ELSE << >>)
  \o (IF \E i \in 1..Len(deps.Filters) :
            filterReferencesModel(deps.Filters[i], change.Model)
      THEN <<"filter_dependency">> ELSE << >>)
  \o (IF \E i \in 1..Len(deps.Includes) :
            /\ Has(deps.Includes[i], "Query")
            /\ deps.Includes[i].Query.Model = change.Model
      THEN <<"relation_dependency">> ELSE << >>)

RECURSIVE AllReasons(_, _)
AllReasons(changes, deps) ==
  IF changes = << >> THEN << >>
  ELSE ChangeReasons(Head(changes), deps) \o AllReasons(Tail(changes), deps)

\* variant: a fingerprint without a record is reported as invalidated
ExplainResponse_UnknownEvicts(req) ==
  IF req.ShapeID \notin DOMAIN shapes
  THEN [Invalidate |-> TRUE, Reasons |-> <<"unknown_shape">>]
  ELSE LET uniqueReasons ==
             deduplicateStrings(AllReasons(req.Mutation.Changes, shapes[req.ShapeID]))
       IN [Invalidate |-> Len(uniqueReasons) > 0, Reasons |-> uniqueReasons]

\* the response of ExplainInvalidation
ExplainResponse(req) ==
  IF req.ShapeID \notin DOMAIN shapes
  THEN [Invalidate |-> FALSE, Reasons |-> << >>]
  ELSE LET uniqueReasons ==
             deduplicateStrings(AllReasons(req.Mutation.Changes, shapes[req.ShapeID]))
       IN [Invalidate |-> Len(uniqueReasons) > 0, Reasons |-> uniqueReasons]

\* the result pair of GetDependencies
DependenciesOf(shapeID) ==
  IF shapeID \in DOMAIN shapes
  THEN [Dependencies |-> shapes[shapeID], OK |-> TRUE]
  ELSE [Dependencies |-> ZeroDependencies, OK |-> FALSE]

Return(op, req, resp) ==
  [op |-> op, req |-> req, resp |-> resp,
   before |-> [schema |-> schema, shapes |-> shapes]]

NoValue == << >>

(***************************************************************************)
(* Construction and operations                                             *)
(***************************************************************************)
Configs ==
  [ShapeIDGenerator : Generators, EvictBehavior : {"", "conservative"},
   CustomEvictList : {<< >>}, TrackCalls : {FALSE}]

NewMockEngine(cfg) ==
  /\ schema = << >>
  /\ shapes = EmptyMap
  /\ config = cfg
  /\ calls = NoCalls
  /\ mu = Unlocked
  /\ ret = [op |-> "NewMockEngine", req |-> cfg, resp |-> NoValue,
            before |-> [schema |-> << >>, shapes |-> EmptyMap]]

\* a caller that has not entered a call
Idle ==
  [pc |-> "idle", req |-> NoValue, ticket |-> 0, shapeID |-> "",
   deps |-> NoValue, before |-> NoValue]

Init ==
  /\ \E cfg \in Configs : NewMockEngine(cfg)
  /\ th = [t \in Threads |-> Idle]

SetSchema(s) ==
  /\ calls' = IF config.TrackCalls
              THEN [calls EXCEPT !.SetSchema = Append(@, s)] ELSE calls
  /\ schema' = <<s>>
  /\ ret' = Return("SetSchema", s, NoValue)
  /\ UNCHANGED <<shapes, config, mu, th>>

ComputeShapeIDCall(stmt) ==
  /\ calls' = IF config.TrackCalls
              THEN [calls EXCEPT !.ComputeShapeID = Append(@, stmt)] ELSE calls
  /\ ret' = Return("ComputeShapeID", stmt, [ShapeID |-> computeShapeIDInternal(stmt)])
  /\ UNCHANGED <<schema, shapes, config, mu, th>>

AddQuery(req) ==
  LET shapeID == computeShapeIDInternal(req.Shape)
      deps == BuildDependencies(req, shapeID)
  IN /\ shapeID \in DOMAIN shapes \/ Cardinality(DOMAIN shapes) < MaxShapes
     /\ calls' = IF config.TrackCalls
                 THEN [calls EXCEPT !.AddQuery = Append(@, req),
                                    !.ComputeShapeID = Append(@, req.Shape)]
                 ELSE calls
     /\ shapes' = StoreShape(shapeID, deps)
     /\ ret' = Return("AddQuery", req, [ShapeID |-> shapeID, Dependencies |-> deps])
     /\ UNCHANGED <<schema, config, mu, th>>

\* variant: the scan deletes what it evicts
Invalidate_Deleting(mutation) ==
  /\ calls' = IF config.TrackCalls
              THEN [calls EXCEPT !.Invalidate = Append(@, mutation)] ELSE calls
  /\ \E evict \in InvalidateEvict(mutation) :
        /\ ret' = Return("Invalidate", mutation, [Evict |-> evict])
        /\ shapes' = [f \in DOMAIN shapes \ Range(evict) |-> shapes[f]]
  /\ UNCHANGED <<schema, config, mu, th>>

Invalidate(mutation) ==
  /\ calls' = IF config.TrackCalls
              THEN [calls EXCEPT !.Invalidate = Append(@, mutation)] ELSE calls
  /\ \E evict \in InvalidateEvict(mutation) :
        ret' = Return("Invalidate", mutation, [Evict |-> evict])
  /\ UNCHANGED <<schema, shapes, config, mu, th>>

ExplainInvalidation(req) ==
  /\ calls' = IF config.TrackCalls
              THEN [calls EXCEPT !.ExplainInvalidation = Append(@, req)] ELSE calls
  /\ ret' = Return("ExplainInvalidation", req, ExplainResponse(req))
  /\ UNCHANGED <<schema, shapes, config, mu, th>>

\* variant: the eviction configuration is cleared with the rest
Reset_ClearsConfig ==
  /\ schema' = << >>
  /\ shapes' = EmptyMap
  /\ calls' = IF config.TrackCalls THEN NoCalls ELSE calls
  /\ config' = [config EXCEPT !.CustomEvictList = << >>, !.EvictBehavior = ""]
  /\ ret' = Return("Reset", NoValue, NoValue)
  /\ UNCHANGED <<mu, th>>

\* variant: the call is logged and the log is kept
Reset_KeepsCalls ==
  /\ schema' = << >>
  /\ shapes' = EmptyMap
  /\ calls' = IF config.TrackCalls
              THEN [calls EXCEPT !.Reset = Append(@, NoValue)] ELSE calls
  /\ ret' = Return("Reset", NoValue, NoValue)
  /\ UNCHANGED <<config, mu, th>>

\* variant: the schema is dropped but the map is not replaced
Reset_KeepsShapes ==
  /\ schema' = << >>
  /\ calls' = IF config.TrackCalls THEN NoCalls ELSE calls
  /\ ret' = Return("Reset", NoValue, NoValue)
  /\ UNCHANGED <<shapes, config, mu, th>>

Reset ==
  /\ schema' = << >>
  /\ shapes' = EmptyMap
  /\ calls' = IF config.TrackCalls THEN NoCalls ELSE calls
  /\ ret' = Return("Reset", NoValue, NoValue)
  /\ UNCHANGED <<config, mu, th>>

GetVersion ==
  /\ calls' = IF config.TrackCalls
              THEN [calls EXCEPT !.GetVersion = Append(@, NoValue)] ELSE calls
  /\ ret' = Return("GetVersion", NoValue,
                   [Core |-> "mock-0.1.0", Contract |-> "0.1.0", ABI |-> "1"])
  /\ UNCHANGED <<schema, shapes, config, mu, th>>

GetCalls ==
  /\ ret' = Return("GetCalls", NoValue, calls)
  /\ UNCHANGED <<schema, shapes, calls, config, mu, th>>

SetEvictList(shapeIDs) ==
  /\ config' = [config EXCEPT !.CustomEvictList = shapeIDs,
                              !.EvictBehavior = "custom"]
  /\ ret' = Return("SetEvictList", shapeIDs, NoValue)
  /\ UNCHANGED <<schema, shapes, calls, mu, th>>

GetDependencies(shapeID) ==
  /\ ret' = Return("GetDependencies", shapeID, DependenciesOf(shapeID))
  /\ UNCHANGED <<schema, shapes, calls, config, mu, th>>

Next ==
  \/ \E s \in AppSchemas : SetSchema(s)
  \/ \E stmt \in Statements : ComputeShapeIDCall(stmt)
  \/ \E req \in Requests : AddQuery(req)
  \/ \E mutation \in Mutations : Invalidate(mutation)
  \/ \E req \in ExplainRequests : ExplainInvalidation(req)
  \/ Reset
  \/ GetVersion
  \/ GetCalls
  \/ \E shapeIDs \in EvictLists : SetEvictList(shapeIDs)
  \/ \E shapeID \in ShapeIDs : GetDependencies(shapeID)

Spec == Init /\ [][Next]_vars

(***************************************************************************)
(* The engine on grouping and diagnostic-carrying statements, with and     *)
(* without call tracking                                                   *)
(***************************************************************************)
ShapeConfigs ==
  [ShapeIDGenerator : Generators, EvictBehavior : {""},
   CustomEvictList : {<< >>}, TrackCalls : BOOLEAN]

InitShape ==
  /\ \E cfg \in ShapeConfigs : NewMockEngine(cfg)
  /\ th = [t \in Threads |-> Idle]

\* the number of entries in m.calls
CallCount ==
  Len(calls.SetSchema) + Len(calls.ComputeShapeID) + Len(calls.AddQuery)
  + Len(calls.Invalidate) + Len(calls.ExplainInvalidation) + Len(calls.Reset)
  + Len(calls.GetVersion)

NextShape ==
  \/ \E s \in AppSchemas : CallCount < MaxCalls /\ SetSchema(s)
  \/ \E stmt \in ShapeStatements : CallCount < MaxCalls /\ ComputeShapeIDCall(stmt)
  \/ \E req \in ShapeRequests : CallCount < MaxCalls /\ AddQuery(req)
  \/ Reset
  \/ GetCalls
  \/ \E stmt \in ShapeStatements : GetDependencies(RealShapeID[stmt])

SpecShape == InitShape /\ [][NextShape]_vars

(***************************************************************************)
(* The engine with call tracking, and the TypeScript engine                *)
(* (pkgs/ts/tests/src/mock/interface.ts) on the same requests              *)
(***************************************************************************)
\* posts: one row, whose id is null
HintNullID == [m \in {"posts"} |-> << Row(<< <<"id", JNull>> >>) >>]

TrackRequests ==
  { [Shape |-> StmtPostsEq],
    [Shape |-> StmtPostsEq, ResultHint |-> HintMixed],
    [Shape |-> StmtPostsEq, ResultHint |-> HintNullID],
    [Shape |-> StmtUsers, ResultHint |-> HintPostsUsers] }

TrackExplainRequests ==
  { [Mutation |-> MutPosts, ShapeID |-> RealShapeID[StmtPostsEq]],
    [Mutation |-> MutUsers, ShapeID |-> "s_unknown"] }

InitTrack ==
  /\ NewMockEngine([ShapeIDGenerator |-> << >>, EvictBehavior |-> "",
                    CustomEvictList |-> << >>, TrackCalls |-> TRUE])
  /\ th = [t \in Threads |-> Idle]

NextTrack ==
  \/ \E s \in AppSchemas : CallCount < MaxCalls /\ SetSchema(s)
  \/ CallCount < MaxCalls /\ ComputeShapeIDCall(StmtUsers)
  \/ \E req \in TrackRequests : CallCount < MaxCalls /\ AddQuery(req)
  \/ \E mutation \in {MutUsers, MutPosts} : CallCount < MaxCalls /\ Invalidate(mutation)
  \/ \E req \in TrackExplainRequests : CallCount < MaxCalls /\ ExplainInvalidation(req)
  \/ CallCount < MaxCalls /\ GetVersion
  \/ Reset
  \/ GetCalls

SpecTrack == InitTrack /\ [][NextTrack]_vars

\* canonicalizeQueryShape and computeQueryShapeId (TypeScript): copy, delete
\* orm_version and sdk_version, canonicalize, hash
computeQueryShapeId(shape) ==
  LET cleaned == MarshalValue("Statement", shape)
  IN computeShapeId(
       canonicalize(JObj(DeleteKey(DeleteKey(cleaned.kv, "orm_version"), "sdk_version"))))

\* row?.id?.toString(), a sequence of length 0 for undefined
RowIDString(row) ==
  IF row.t = "obj" /\ ObjHas(row, "id") /\ ObjGet(row, "id").t # "null"
  THEN <<SprintfV(ObjGet(row, "id"))>>
  ELSE << >>

\* rows.map(row => row?.id?.toString()).filter(id => id !== undefined)
RECURSIVE MapFilterIDs(_)
MapFilterIDs(rows) ==
  IF rows = << >> THEN << >>
  ELSE RowIDString(Head(rows)) \o MapFilterIDs(Tail(rows))

\* MockIncludeKitEngine.extractRecords
extractRecordsTS(request) ==
  IF ~Has(request, "ResultHint") \/ ~Has(request.Shape, "Query") THEN EmptyMap
  ELSE LET model == request.Shape.Query.Model
       IN IF model \in DOMAIN request.ResultHint
          THEN LET ids == MapFilterIDs(request.ResultHint[model])
               IN IF Len(ids) > 0 THEN model :> ids ELSE EmptyMap
          ELSE EmptyMap

\* the Map of the TypeScript engine is a sequence of <<key, value>> in
\* insertion order; set() keeps the place of a key that is present
MapSet(map, key, value) ==
  IF \E i \in 1..Len(map) : map[i][1] = key
  THEN [i \in 1..Len(map) |-> IF map[i][1] = key THEN <<key, value>> ELSE map[i]]
  ELSE Append(map, <<key, value>>)

\* MockIncludeKitEngine.addQuery on the store `map`
addQueryTS(map, request) ==
  LET shape_id == computeQueryShapeId(request.Shape)
  IN MapSet(map, shape_id,
            [ShapeID |-> shape_id,
             Records |-> extractRecordsTS(request),
             Filters |-> extractFilters(request.Shape),
             Includes |-> IF Has(request.Shape, "Includes")
                          THEN request.Shape.Includes ELSE << >>])

\* the store of a TypeScript engine after the given addQuery requests
RECURSIVE ShapesTS(_)
ShapesTS(requests) ==
  IF requests = << >> THEN << >>
  ELSE addQueryTS(ShapesTS(SubSeq(requests, 1, Len(requests) - 1)),
                  requests[Len(requests)])

\* MockIncludeKitEngine.shouldInvalidate
shouldInvalidateTS(change, deps) ==
  LET behavior == IF config.EvictBehavior = "" THEN "conservative"
                  ELSE config.EvictBehavior
  IN IF behavior = "conservative"
     THEN change.Model \in DOMAIN deps.Records
     ELSE FALSE

\* the scan of MockIncludeKitEngine.invalidate over the store `map`
RECURSIVE invalidateTS(_, _)
invalidateTS(map, mutation) ==
  IF map = << >> THEN << >>
  ELSE (IF \E i \in 1..Len(mutation.Changes) :
              shouldInvalidateTS(mutation.Changes[i], Head(map)[2])
        THEN <<Head(map)[1]>> ELSE << >>)
       \o invalidateTS(Tail(map), mutation)

(***************************************************************************)
(* The canonicalization functions applied to bounded inputs                *)
(***************************************************************************)
InitCanon ==
  /\ NewMockEngine([ShapeIDGenerator |-> << >>, EvictBehavior |-> "",
                    CustomEvictList |-> << >>, TrackCalls |-> FALSE])
  /\ th = [t \in Threads |-> Idle]

\* what a call of a function outside the engine leaves alone
engine == <<schema, shapes, calls, config, mu, th>>

\* Canonicalize, then the canonical string parsed back and canonicalized
\* again
Reparse(v) ==
  LET tokens == marshalTokens(canonicalizeValue(v))
      parsed == jsonUnmarshal(tokens)
  IN [canonical |-> Canonicalize(v), tokens |-> tokens,
      parsed |-> parsed, again |-> Canonicalize(parsed)]

\* the same through the vector generator's canonicalize
ReparseVector(v) ==
  LET tokens == marshalTokens(canonicalizeValue(jsonUnmarshal(marshalTokens(v))))
      parsed == jsonUnmarshal(tokens)
  IN [canonical |-> canonicalizeVector(v), tokens |-> tokens,
      parsed |-> parsed, again |-> canonicalizeVector(parsed)]

\* the results on the bounded inputs, computed once
Results ==
  [v \in CanonValues |->
     [Canonicalize |-> Canonicalize(v), canonicalize |-> canonicalize(v),
      Reparse |-> Reparse(v), ReparseVector |-> ReparseVector(v)]]

CanonicalizeGo(v) ==
  /\ ret' = Return("Canonicalize", v, Results[v].Canonicalize)
  /\ UNCHANGED engine

CanonicalizeTS(v) ==
  /\ ret' = Return("canonicalize", v, Results[v].canonicalize)
  /\ UNCHANGED engine

ReparseGo(v) ==
  /\ ret' = Return("Reparse", v, Results[v].Reparse)
  /\ UNCHANGED engine

ReparseVectorGo(v) ==
  /\ ret' = Return("ReparseVector", v, Results[v].ReparseVector)
  /\ UNCHANGED engine

\* ComputeShapeID of the Go testkit on a canonical string
ComputeShapeIDGo(canonicalJSON) ==
  /\ ret' = Return("tests.ComputeShapeID", canonicalJSON, ComputeShapeID(canonicalJSON))
  /\ UNCHANGED engine

\* computeShapeId of the TypeScript testkit
ComputeShapeIdTS(canonicalJson) ==
  /\ ret' = Return("computeShapeId", canonicalJson, computeShapeId(canonicalJson))
  /\ UNCHANGED engine

NextCanon ==
  \/ \E v \in CanonValues : CanonicalizeGo(v)
  \/ \E v \in CanonValues : CanonicalizeTS(v)
  \/ \E v \in CanonValues : ReparseGo(v)
  \/ \E v \in CanonValues : ReparseVectorGo(v)
  \/ \E str \in Range(HashInputs) : ComputeShapeIDGo(str)
  \/ \E str \in Range(HashInputs) : ComputeShapeIdTS(str)

SpecCanon == InitCanon /\ [][NextCanon]_vars

(***************************************************************************)
(* The validators applied to bounded inputs                                *)
(***************************************************************************)
Repeat(c, n) == [i \in 1..n |-> c]

HexAlphabet == {HexDigits[i] : i \in 1..Len(HexDigits)}

SetName == [Field |-> "name", Value |-> JStr("n")]

WhereID == [Conditions |-> << [Field |-> "id", Op |-> "eq", Value |-> JStr("1")] >>]

\* the values of Change.Sets: nil, empty, one clause
SetsOptions == {"nil", "empty", "one"}

\* a Change with the given action; sets is one of SetsOptions, where tells
\* whether Where is populated
ChangeOf(model, action, sets, where) ==
  [k \in {"Model", "Action"}
         \cup (IF sets = "nil" THEN {} ELSE {"Sets"})
         \cup (IF where THEN {"Where"} ELSE {}) |->
     CASE k = "Model" -> model
       [] k = "Action" -> action
       [] k = "Sets" -> IF sets = "empty" THEN << >> ELSE <<SetName>>
       [] k = "Where" -> WhereID]

ChangeActions == {"insert", "update", "delete", "upsert", ""}

ChangeInputs ==
  { ChangeOf("posts", action, sets, where) :
      action \in ChangeActions, sets \in SetsOptions, where \in BOOLEAN }
  \cup { ChangeOf("", "insert", "one", FALSE),
         [Model |-> "posts", Action |-> "update", Where |-> WhereID,
          Sets |-> << SetName, [Field |-> "", Value |-> JStr("n")] >>],
         [Model |-> "posts", Action |-> "delete",
          Where |-> [Conditions |-> << [Field |-> "id", Op |-> "bogus",
                                        Value |-> JStr("1")] >>]] }

\* one change of each action that the validator accepts
ValidChanges ==
  { ChangeOf("posts", "insert", "one", FALSE),
    ChangeOf("posts", "update", "one", TRUE),
    ChangeOf("posts", "delete", "nil", TRUE) }

\* mutations with nil, zero, one and two changes
MutationInputs ==
  { [TxID |-> "tx1"], [Changes |-> << >>] }
  \cup { [Changes |-> <<c>>] : c \in ChangeInputs }
  \cup { [Changes |-> <<c, d>>] : c \in ValidChanges, d \in ChangeInputs }
  \cup { [Changes |-> <<c, d>>] : c \in ChangeInputs, d \in ValidChanges }

\* an optional integer (*int): nil, negative, zero, positive
IntOptions == {<< >>, <<-1>>, <<0>>, <<1>>}

\* an optional cursor (*string)
CursorOptions == {<< >>, <<"Y3Vyc29y">>}

QueryOf(model, limit, offset) ==
  [k \in {"Model"}
         \cup (IF limit = << >> THEN {} ELSE {"Limit"})
         \cup (IF offset = << >> THEN {} ELSE {"Offset"}) |->
     CASE k = "Model" -> model
       [] k = "Limit" -> limit[1]
       [] k = "Offset" -> offset[1]]

QueryInputs ==
  { QueryOf("posts", limit, offset) : limit \in IntOptions, offset \in IntOptions }
  \cup { QueryOf("", <<0>>, <<0>>) }

\* a Pagination with at least one field populated
PaginationOf(first, last, after, before) ==
  [k \in (IF first = << >> THEN {} ELSE {"First"})
         \cup (IF last = << >> THEN {} ELSE {"Last"})
         \cup (IF after = << >> THEN {} ELSE {"After"})
         \cup (IF before = << >> THEN {} ELSE {"Before"}) |->
     CASE k = "First" -> first[1]
       [] k = "Last" -> last[1]
       [] k = "After" -> after[1]
       [] k = "Before" -> before[1]]

PaginationInputs ==
  { PaginationOf(first, last, after, before) :
      first \in IntOptions, last \in IntOptions,
      after \in CursorOptions, before \in CursorOptions }

\* the queries put into includes
IncludeQueries ==
  { QueryOf("comments", limit, offset) :
      limit \in {<< >>, <<-1>>, <<0>>}, offset \in {<< >>, <<-1>>, <<0>>} }

IncludeLeaves ==
  { [Query |-> q] : q \in IncludeQueries }
  \cup { [Query |-> QueryOf("comments", << >>, << >>), Kind |-> kind] :
           kind \in {"some", "any"} }

\* includes of depth one, two and three; the leaf also as a second sibling
IncludeInputs ==
  IncludeLeaves
  \cup { [Query |-> QueryOf("posts", <<1>>, <<0>>), Includes |-> <<leaf>>] :
           leaf \in IncludeLeaves }
  \cup { [Query |-> QueryOf("posts", <<1>>, <<0>>),
          Includes |-> <<[Query |-> QueryOf("tags", << >>, << >>)], leaf>>] :
           leaf \in IncludeLeaves }
  \cup { [Query |-> QueryOf("posts", << >>, << >>),
          Includes |-> <<[Kind |-> "every", Includes |-> <<leaf>>]>>] :
           leaf \in IncludeLeaves }

\* statements for ValidateQueryShape: every query alone, every pagination
\* alone, beside a valid and beside an invalid query, and every include
\* under a valid query
StatementInputs ==
  { [Query |-> q] : q \in QueryInputs }
  \cup { [Pagination |-> p] : p \in PaginationInputs }
  \cup { [Query |-> q, Pagination |-> p] :
           q \in {QueryOf("users", <<0>>, <<0>>), QueryOf("users", <<-1>>, << >>)},
           p \in PaginationInputs }
  \cup { [Query |-> QueryOf("users", <<0>>, <<0>>), Includes |-> <<incl>>] :
           incl \in IncludeInputs }
  \cup { [Query |-> QueryOf("users", << >>, << >>),
          Pagination |-> PaginationOf(<<1>>, << >>, << >>, << >>),
          Includes |-> <<[Query |-> QueryOf("posts", << >>, << >>)], incl>>] :
           incl \in IncludeInputs }
  \cup { StmtGroup,
         [Query |-> QueryOf("posts", << >>, << >>), GroupBy |-> <<"author_id", "">>],
         [Query |-> QueryOf("posts", << >>, << >>),
          Having |-> [Conditions |-> <<[Field |-> "n", Op |-> "bogus", Value |-> JNum(1)]>>]] }

\* operator names: outside the enumerated set, on and off the custom:* pattern
OtherOps == {"custom:", "custom:near", "custom:x", "custom", "Custom:x", "EQ", "equals", "bogus", ""}

CondOf(op) == [Field |-> "status", Op |-> op, Value |-> JStr("v")]

\* filter trees that hold the condition c at depth zero to three, under
\* and, or and not, beside a condition that is valid
FilterTrees(c) ==
  { [Conditions |-> <<c>>],
    [And |-> <<[Conditions |-> <<c>>]>>],
    [Or |-> <<[Conditions |-> <<CondOf("eq")>>], [Conditions |-> <<c>>]>>],
    [Not |-> [Conditions |-> <<c>>]],
    [And |-> <<[Or |-> <<[Not |-> [Conditions |-> <<CondOf("ne"), c>>]]>>]>>] }

FilterInputs ==
  { [Conditions |-> <<CondOf(op)>>] : op \in validOps }
  \cup UNION { FilterTrees(CondOf(op)) : op \in OtherOps \cup {"eq", "exists"} }

\* a filter in each place a statement can hold one
FilterStatements ==
  { [Query |-> [Model |-> "posts", Where |-> f]] : f \in FilterInputs }
  \cup { [Query |-> [Model |-> "posts"], GroupBy |-> <<"status">>, Having |-> f] :
           f \in FilterInputs \ {[Conditions |-> <<CondOf(op)>>] : op \in validOps} }
  \cup { [Query |-> [Model |-> "users"],
          Includes |-> <<[Query |-> [Model |-> "posts"],
                          Includes |-> <<[Query |-> [Model |-> "comments", Where |-> f]]>>]>>] :
           f \in FilterInputs \ {[Conditions |-> <<CondOf(op)>>] : op \in validOps} }

\* a filter as the where of an update, after a change that is valid
FilterMutations ==
  { [Changes |-> << ChangeOf("posts", "insert", "one", FALSE),
                    [Model |-> "posts", Action |-> "update", Sets |-> <<SetName>>,
                     Where |-> f] >>] :
      f \in FilterInputs \ {[Conditions |-> <<CondOf(op)>>] : op \in validOps} }

\* the ids handed to ValidateDependencies: computed ids, and ids that differ
\* from one in length, in prefix or in alphabet
CandidateShapeIDs ==
  { ShapeIDChars(""), ShapeIDChars("{}"),
    ShapeIDPrefix \o Repeat("a", ShapeIDHexLength),
    ShapeIDPrefix \o Repeat("z", ShapeIDHexLength),
    ShapeIDPrefix \o Repeat("A", ShapeIDHexLength),
    ShapeIDPrefix \o Repeat("a", ShapeIDHexLength - 1) \o <<"g">>,
    ShapeIDPrefix \o Repeat("a", ShapeIDHexLength - 1),
    ShapeIDPrefix \o Repeat("a", ShapeIDHexLength + 1),
    <<"x", "_">> \o Repeat("a", ShapeIDHexLength),
    <<"S", "_">> \o Repeat("a", ShapeIDHexLength),
    Repeat("a", ShapeIDLength),
    <<"s", "_", "a", "b", "c">>,
    <<"i", "n", "v", "a", "l", "i", "d">>,
    << >> }

DependencyBodies ==
  { [k \in ks |-> IF k = "Records" THEN EmptyMap ELSE << >>] :
      ks \in SUBSET {"Records", "Filters", "Includes"} }

\* Dependencies values with every combination of nil collections
DependencyInputs ==
  { [k \in DOMAIN body \cup {"ShapeID"} |-> IF k = "ShapeID" THEN id ELSE body[k]] :
      id \in CandidateShapeIDs, body \in DependencyBodies }

ValidateDependenciesCall(deps) ==
  /\ ret' = Return("ValidateDependencies", deps, ValidateDependencies(deps))
  /\ UNCHANGED engine

ValidateMutationEventCall(event) ==
  /\ ret' = Return("ValidateMutationEvent", event, ValidateMutationEvent(event))
  /\ UNCHANGED engine

ValidateQueryShapeCall(stmt) ==
  /\ ret' = Return("ValidateQueryShape", stmt, ValidateQueryShape(stmt))
  /\ UNCHANGED engine

NextValid ==
  \/ \E stmt \in {<< >>} \cup {<<st>> : st \in StatementInputs \cup FilterStatements} :
       ValidateQueryShapeCall(stmt)
  \/ \E event \in {<< >>} \cup {<<e>> : e \in MutationInputs \cup FilterMutations} :
       ValidateMutationEventCall(event)
  \/ \E deps \in {<< >>} \cup {<<d>> : d \in DependencyInputs} :
       ValidateDependenciesCall(deps)

SpecValid == InitCanon /\ [][NextValid]_vars

(***************************************************************************)
(* AddQuery from concurrent callers, one step per statement of its body    *)
(***************************************************************************)
\* the rank of the next acquisition of m.mu
NextTicket == Cardinality({u \in Threads : th[u].pc # "idle"}) + 1

\* m.mu.Lock(): granted when nobody holds the lock
AddQuery_Lock(t, req) ==
  /\ th[t].pc = "idle"
  /\ mu = Unlocked
  /\ mu' = [mu EXCEPT !.writer = t]
  /\ th' = [th EXCEPT ![t] = [Idle EXCEPT !.pc = "locked", !.req = req,
                                          !.ticket = NextTicket,
                                          !.before = [schema |-> schema, shapes |-> shapes]]]
  /\ UNCHANGED <<schema, shapes, calls, config, ret>>

\* the call log, computeShapeIDInternal and the Dependencies literal
AddQuery_Build(t) ==
  /\ th[t].pc = "locked"
  /\ LET req == th[t].req
         shapeID == computeShapeIDInternal(req.Shape)
     IN /\ calls' = IF config.TrackCalls
                    THEN [calls EXCEPT !.AddQuery = Append(@, req),
                                       !.ComputeShapeID = Append(@, req.Shape)]
                    ELSE calls
        /\ th' = [th EXCEPT ![t].pc = "built", ![t].shapeID = shapeID,
                            ![t].deps = BuildDependencies(req, shapeID)]
  /\ UNCHANGED <<schema, shapes, config, ret, mu>>

\* m.shapes[shapeID] = deps
AddQuery_Store(t) ==
  /\ th[t].pc = "built"
  /\ shapes' = StoreShape(th[t].shapeID, th[t].deps)
  /\ th' = [th EXCEPT ![t].pc = "stored"]
  /\ UNCHANGED <<schema, calls, config, ret, mu>>

\* the return statement and the deferred m.mu.Unlock()
AddQuery_Unlock(t) ==
  /\ th[t].pc = "stored"
  /\ ret' = [op |-> "AddQuery", req |-> th[t].req,
             resp |-> [ShapeID |-> th[t].shapeID, Dependencies |-> th[t].deps],
             before |-> th[t].before]
  /\ mu' = [mu EXCEPT !.writer = 0]
  /\ th' = [th EXCEPT ![t].pc = "done"]
  /\ UNCHANGED <<schema, shapes, calls, config>>

NextLock ==
  \/ \E t \in Threads, req \in ConcurrentRequests : AddQuery_Lock(t, req)
  \/ \E t \in Threads : AddQuery_Build(t)
  \/ \E t \in Threads : AddQuery_Store(t)
  \/ \E t \in Threads : AddQuery_Unlock(t)

SpecLock == Init /\ [][NextLock]_vars

(***************************************************************************)
(* Invalidate, Reset and AddQuery from concurrent callers.  Each caller    *)
(* makes one call; th[t].deps holds the locals of a running Invalidate.    *)
(* While the lock is held as the code takes it no write can come between   *)
(* two steps of a scan, so every step reads the same map.                  *)
(***************************************************************************)
MutPostsUsers == [Changes |-> <<ChangeUpdate("posts"), ChangeInsert("users")>>]

RaceRequests ==
  { [Shape |-> StmtUsers],
    [Shape |-> StmtUsers, ResultHint |-> HintUsers],
    [Shape |-> StmtPostsEq, ResultHint |-> HintPostsUsers] }

\* the store after AddQuery of the requests, made one after the other
RECURSIVE StoreAfter(_)
StoreAfter(requests) ==
  IF requests = << >> THEN EmptyMap
  ELSE LET req == requests[Len(requests)]
           shapeID == RealShapeID[req.Shape]
       IN (shapeID :> BuildDependencies(req, shapeID))
          @@ StoreAfter(SubSeq(requests, 1, Len(requests) - 1))

\* the engine after NewMockEngine and zero, one or two AddQuery calls
InitRace ==
  /\ \E track \in BOOLEAN :
       config = [ShapeIDGenerator |-> << >>, EvictBehavior |-> "",
                 CustomEvictList |-> << >>, TrackCalls |-> track]
  /\ \E requests \in { << >>,
                       << [Shape |-> StmtUsers, ResultHint |-> HintUsers] >>,
                       << [Shape |-> StmtUsers, ResultHint |-> HintUsers],
                          [Shape |-> StmtPostsEq, ResultHint |-> HintPostsUsers] >> } :
       /\ shapes = StoreAfter(requests)
       /\ calls = IF config.TrackCalls
                  THEN [NoCalls EXCEPT !.AddQuery = requests,
                                       !.ComputeShapeID =
                                         [i \in 1..Len(requests) |-> requests[i].Shape]]
                  ELSE NoCalls
       /\ ret = IF requests = << >>
                THEN [op |-> "NewMockEngine", req |-> config, resp |-> NoValue,
                      before |-> [schema |-> << >>, shapes |-> EmptyMap]]
                ELSE LET req == requests[Len(requests)]
                         shapeID == RealShapeID[req.Shape]
                     IN [op |-> "AddQuery", req |-> req,
                         resp |-> [ShapeID |-> shapeID,
                                   Dependencies |-> BuildDependencies(req, shapeID)],
                         before |-> [schema |-> << >>,
                                     shapes |-> StoreAfter(SubSeq(requests, 1,
                                                                  Len(requests) - 1))]]
  /\ schema = << >>
  /\ mu = Unlocked
  /\ th = [t \in Threads |-> Idle]

\* variant: the read lock is granted while a writer holds the lock
Invalidate_RLock_NoWait(t, mutation) ==
  /\ th[t].pc = "idle"
  /\ mu' = [mu EXCEPT !.readers = @ \cup {t}]
  /\ th' = [th EXCEPT ![t] =
              [Idle EXCEPT !.pc = IF config.TrackCalls THEN "rlocked" ELSE "scanning",
                           !.req = mutation, !.ticket = NextTicket,
                           !.before = [schema |-> schema, shapes |-> shapes],
                           !.deps = [log |-> << >>, visited |-> {}, evict |-> << >>]]]
  /\ UNCHANGED <<schema, shapes, calls, config, ret>>

\* m.mu.RLock(): granted when no writer holds the lock; then the test of
\* m.config.TrackCalls
Invalidate_RLock(t, mutation) ==
  /\ th[t].pc = "idle"
  /\ mu.writer = 0
  /\ mu' = [mu EXCEPT !.readers = @ \cup {t}]
  /\ th' = [th EXCEPT ![t] =
              [Idle EXCEPT !.pc = IF config.TrackCalls THEN "rlocked" ELSE "scanning",
                           !.req = mutation, !.ticket = NextTicket,
                           !.before = [schema |-> schema, shapes |-> shapes],
                           !.deps = [log |-> << >>, visited |-> {}, evict |-> << >>]]]
  /\ UNCHANGED <<schema, shapes, calls, config, ret>>

\* append(m.calls.Invalidate, mutation): the read of the list
Invalidate_LogLoad(t) ==
  /\ th[t].pc = "rlocked"
  /\ th' = [th EXCEPT ![t].pc = "logging", ![t].deps.log = calls.Invalidate]
  /\ UNCHANGED <<schema, shapes, calls, config, ret, mu>>

\* m.calls.Invalidate = ...: the write of the list that was read, extended
Invalidate_LogStore(t) ==
  /\ th[t].pc = "logging"
  /\ calls' = [calls EXCEPT !.Invalidate = Append(th[t].deps.log, th[t].req)]
  /\ th' = [th EXCEPT ![t].pc = "scanning"]
  /\ UNCHANGED <<schema, shapes, config, ret, mu>>

\* one iteration of the range over m.shapes
Invalidate_Scan(t) ==
  /\ th[t].pc = "scanning"
  /\ ~(config.EvictBehavior = "custom" /\ Len(config.CustomEvictList) > 0)
  /\ \E shapeID \in DOMAIN shapes \ th[t].deps.visited :
       th' = [th EXCEPT
                ![t].deps.visited = @ \cup {shapeID},
                ![t].deps.evict =
                   IF \E i \in 1..Len(th[t].req.Changes) :
                        shouldInvalidate(th[t].req.Changes[i], shapes[shapeID])
                   THEN Append(@, shapeID) ELSE @]
  /\ UNCHANGED <<schema, shapes, calls, config, ret, mu>>

\* the return statement, of the custom list or at the end of the range,
\* and the deferred m.mu.RUnlock()
Invalidate_RUnlock(t) ==
  /\ th[t].pc = "scanning"
  /\ LET custom == config.EvictBehavior = "custom" /\ Len(config.CustomEvictList) > 0
     IN /\ custom \/ DOMAIN shapes \subseteq th[t].deps.visited
        /\ ret' = [op |-> "Invalidate", req |-> th[t].req,
                   resp |-> [Evict |-> IF custom THEN config.CustomEvictList
                                       ELSE th[t].deps.evict],
                   before |-> th[t].before]
  /\ mu' = [mu EXCEPT !.readers = @ \ {t}]
  /\ th' = [th EXCEPT ![t].pc = "done"]
  /\ UNCHANGED <<schema, shapes, calls, config>>

\* m.mu.Lock() of Reset: granted when nobody holds the lock
Reset_Lock(t) ==
  /\ th[t].pc = "idle"
  /\ mu = Unlocked
  /\ mu' = [mu EXCEPT !.writer = t]
  /\ th' = [th EXCEPT ![t] = [Idle EXCEPT !.pc = "resetting", !.ticket = NextTicket,
                                          !.before = [schema |-> schema, shapes |-> shapes]]]
  /\ UNCHANGED <<schema, shapes, calls, config, ret>>

\* the body of Reset
Reset_Clear(t) ==
  /\ th[t].pc = "resetting"
  /\ schema' = << >>
  /\ shapes' = EmptyMap
  /\ calls' = IF config.TrackCalls THEN NoCalls ELSE calls
  /\ th' = [th EXCEPT ![t].pc = "cleared"]
  /\ UNCHANGED <<config, ret, mu>>

\* the deferred m.mu.Unlock() of Reset
Reset_Unlock(t) ==
  /\ th[t].pc = "cleared"
  /\ ret' = [op |-> "Reset", req |-> NoValue, resp |-> NoValue, before |-> th[t].before]
  /\ mu' = [mu EXCEPT !.writer = 0]
  /\ th' = [th EXCEPT ![t].pc = "done"]
  /\ UNCHANGED <<schema, shapes, calls, config>>

NextRace ==
  \/ \E t \in Threads, req \in RaceRequests : AddQuery_Lock(t, req)
  \/ \E t \in Threads : AddQuery_Build(t)
  \/ \E t \in Threads : AddQuery_Store(t)
  \/ \E t \in Threads : AddQuery_Unlock(t)
  \/ \E t \in Threads, mutation \in {MutUsers, MutPostsUsers} : Invalidate_RLock(t, mutation)
  \/ \E t \in Threads : Invalidate_LogLoad(t)
  \/ \E t \in Threads : Invalidate_LogStore(t)
  \/ \E t \in Threads : Invalidate_Scan(t)
  \/ \E t \in Threads : Invalidate_RUnlock(t)
  \/ \E t \in Threads : Reset_Lock(t)
  \/ \E t \in Threads : Reset_Clear(t)
  \/ \E t \in Threads : Reset_Unlock(t)

SpecRace == InitRace /\ [][NextRace]_vars

(***************************************************************************)
(* Vocabulary of the properties                                            *)
(***************************************************************************)
ChangedModels(mutation) == {mutation.Changes[i].Model : i \in 1..Len(mutation.Changes)}

Conservative == config.EvictBehavior \in {"", "conservative"}

DefaultShapeID == config.ShapeIDGenerator = << >>

Returned(op) == ret.op = op

\* every Include node of a list of includes, at every nesting depth
RECURSIVE IncludeNodes(_)
IncludeNodes(includes) ==
  UNION { {includes[i]} \cup
          (IF Has(includes[i], "Includes") THEN IncludeNodes(includes[i].Includes)
           ELSE {}) : i \in 1..Len(includes) }

StatementIncludes(stmt) ==
  IF Has(stmt, "Includes") THEN IncludeNodes(stmt.Includes) ELSE {}

\* the models a statement reads: its own and those of its includes
ReferencedModels(stmt) ==
  (IF Has(stmt, "Query") THEN {stmt.Query.Model} ELSE {})
  \cup {n.Query.Model : n \in {x \in StatementIncludes(stmt) : Has(x, "Query")}}

OpSuffixes == {"", "near", "x"}

\* the operator matches custom:*
IsCustomOp(op) == op \in {"custom:" \o suffix : suffix \in OpSuffixes}

RECURSIVE FilterHasCustomOp(_)
FilterHasCustomOp(filter) ==
  \/ Has(filter, "Conditions")
     /\ \E i \in 1..Len(filter.Conditions) : IsCustomOp(filter.Conditions[i].Op)
  \/ Has(filter, "And") /\ \E i \in 1..Len(filter.And) : FilterHasCustomOp(filter.And[i])
  \/ Has(filter, "Or") /\ \E i \in 1..Len(filter.Or) : FilterHasCustomOp(filter.Or[i])
  \/ Has(filter, "Not") /\ FilterHasCustomOp(filter.Not)

(***************************************************************************)
(* C1  Conservative invalidation                                           *)
(***************************************************************************)
\* the stored records of `store` that track a model the mutation changes
TrackedHits(store, mutation) ==
  {f \in DOMAIN store : ChangedModels(mutation) \cap DOMAIN store[f].Records # {}}

\* C1 as stated: in any reachable engine state, the evict list Invalidate
\* returns contains the fingerprint of every stored record whose records
\* map has an entry for a model the mutation changes.
C1_AnyState ==
  Returned("Invalidate") =>
    TrackedHits(ret.before.shapes, ret.req) \subseteq Range(ret.resp.Evict)

\* C1 amended: while the eviction behaviour is conservative (the default;
\* SetEvictList has not switched the engine to a custom list), the evict
\* list Invalidate returns contains the fingerprint of every stored record
\* whose records map has an entry for a model the mutation changes.
C1_ConservativeInvalidation ==
  (Returned("Invalidate") /\ Conservative) =>
    TrackedHits(ret.before.shapes, ret.req) \subseteq Range(ret.resp.Evict)

\* an Invalidate in conservative mode that evicted a tracked record found
\* through an insert change, and left another stored record alone
C1_Witness ==
  /\ Returned("Invalidate") /\ Conservative
  /\ ret.req = MutCommentsUsers
  /\ TrackedHits(shapes, ret.req) # {}
  /\ Range(ret.resp.Evict) = TrackedHits(shapes, ret.req)
  /\ DOMAIN shapes \ Range(ret.resp.Evict) # {}

(***************************************************************************)
(* C2  Batch mode and explain mode                                         *)
(***************************************************************************)
\* C2: for every engine state, every stored fingerprint f and every
\* mutation m, f is in the evict list of Invalidate(m) if and only if
\* ExplainInvalidation(m, f) answers invalidate = true.
C2_BatchEqualsExplain ==
  \A m \in Mutations, f \in DOMAIN shapes :
    \A evict \in InvalidateEvict(m) :
      (f \in Range(evict)) <=> ExplainResponse([Mutation |-> m, ShapeID |-> f]).Invalidate

(***************************************************************************)
(* C3  Unrelated-model safety                                              *)
(***************************************************************************)
\* the statement reads a model, and none of the models the mutation changes
Unrelated(stmt, mutation) ==
  /\ Has(stmt, "Query")
  /\ ChangedModels(mutation) \cap ReferencedModels(stmt) = {}

\* C3 as stated: a mutation never causes Invalidate to return the
\* fingerprint of a statement that references none of the models it changes.
C3_AnyConfiguration ==
  Returned("Invalidate") =>
    \A s \in Statements :
      Unrelated(s, ret.req) => computeShapeIDInternal(s) \notin Range(ret.resp.Evict)

\* C3 amended: while the eviction behaviour is conservative and shape ids
\* come from the default computation (no custom evict list, no custom
\* ShapeIDGenerator), a mutation never causes Invalidate to return the
\* fingerprint of a statement that references none of the models it changes.
C3_UnrelatedModelSafety ==
  (Returned("Invalidate") /\ Conservative /\ DefaultShapeID) =>
    \A s \in Statements :
      Unrelated(s, ret.req) => computeShapeIDInternal(s) \notin Range(ret.resp.Evict)

\* an Invalidate that evicted something while the store also held tracked
\* rows for an unrelated statement, which stayed out of the evict list
C3_Witness ==
  /\ Returned("Invalidate") /\ Conservative /\ DefaultShapeID
  /\ ret.resp.Evict # << >>
  /\ \E s \in Statements :
       /\ Unrelated(s, ret.req)
       /\ computeShapeIDInternal(s) \in DOMAIN shapes
       /\ DOMAIN shapes[computeShapeIDInternal(s)].Records # {}
       /\ computeShapeIDInternal(s) \notin Range(ret.resp.Evict)

(***************************************************************************)
(* C4  Custom-operator conservatism                                        *)
(***************************************************************************)
\* the models on which the record stored for statement s carries a
\* custom:* operator: the statement's own model for where/having, the
\* include's model for an include condition
CustomOpModels(s, deps) ==
  {M \in Models :
     \/ /\ Has(s, "Query") /\ s.Query.Model = M
        /\ deps.Filters = extractFilters(s)
        /\ \E i \in 1..Len(deps.Filters) : FilterHasCustomOp(deps.Filters[i])
     \/ \E n \in IncludeNodes(deps.Includes) :
          /\ Has(n, "Query") /\ n.Query.Model = M
          /\ Has(n.Query, "Where") /\ FilterHasCustomOp(n.Query.Where)}

\* C4: if a stored record has a filter or include condition with a
\* custom:* operator on model M, every mutation with a change on M makes
\* Invalidate return that record's fingerprint, rows tracked or not.
C4_CustomOperatorConservatism ==
  Returned("Invalidate") =>
    \A s \in Statements :
      LET f == computeShapeIDInternal(s)
      IN (/\ f \in DOMAIN shapes
          /\ CustomOpModels(s, shapes[f]) \cap ChangedModels(ret.req) # {})
         => f \in Range(ret.resp.Evict)

(***************************************************************************)
(* C5  Live-to-evicted transition                                          *)
(***************************************************************************)
\* C5 as stated: once Invalidate returns f in its evict list, the record
\* for f is gone from the store (GetDependencies(f) reports not found).
C5_EvictedIsDeleted ==
  Returned("Invalidate") => \A f \in Range(ret.resp.Evict) : ~DependenciesOf(f).OK

\* C5 amended: Invalidate only reports fingerprints and never removes a
\* record: after it returns, the store is the one it found (GetDependencies
\* still finds every returned fingerprint that was stored, and a repeated
\* Invalidate returns the same fingerprints); a record leaves the store
\* only through Reset and changes only through an AddQuery for its
\* fingerprint.
C5_InvalidateKeepsStore ==
  /\ [](Returned("Invalidate") =>
          /\ shapes = ret.before.shapes
          /\ \A f \in Range(ret.resp.Evict) \cap DOMAIN ret.before.shapes :
               DependenciesOf(f) = [Dependencies |-> ret.before.shapes[f], OK |-> TRUE]
          /\ \A evict \in InvalidateEvict(ret.req) :
               Range(evict) = Range(ret.resp.Evict))
  /\ [][\A f \in DOMAIN shapes :
          /\ f \notin DOMAIN shapes' => ret'.op = "Reset"
          /\ (f \in DOMAIN shapes' /\ shapes'[f] # shapes[f]) =>
               (ret'.op = "AddQuery" /\ ret'.resp.ShapeID = f)]_vars

\* an Invalidate whose scan returned stored fingerprints, all of them
\* still found afterwards
C5_Witness ==
  /\ Returned("Invalidate") /\ Conservative
  /\ ret.resp.Evict # << >>
  /\ \A f \in Range(ret.resp.Evict) : DependenciesOf(f).OK

(***************************************************************************)
(* C6  Reset                                                               *)
(***************************************************************************)
\* C6: after Reset returns, the dependency map is empty (GetDependencies
\* reports not found for every fingerprint, those stored before the Reset
\* included) and the stored schema is cleared.
C6_ResetClearsAll ==
  Returned("Reset") =>
    /\ shapes = EmptyMap
    /\ schema = << >>
    /\ \A f \in ShapeIDs \cup DOMAIN ret.before.shapes :
         DependenciesOf(f) = [Dependencies |-> ZeroDependencies, OK |-> FALSE]

\* a Reset that found a schema and a full store
C6_Witness ==
  /\ Returned("Reset")
  /\ ret.before.schema # << >>
  /\ Cardinality(DOMAIN ret.before.shapes) >= 2
  /\ \A f \in DOMAIN ret.before.shapes : ~DependenciesOf(f).OK

(***************************************************************************)
(* C7  Last write wins                                                     *)
(***************************************************************************)
\* the callers whose AddQuery has assigned the store under fingerprint f
Stored(f) ==
  {t \in Threads : th[t].pc \in {"stored", "done"} /\ th[t].shapeID = f}

\* among them, the one that acquired the lock last
LastLocker(f) ==
  CHOOSE t \in Stored(f) : \A u \in Stored(f) : th[u].ticket <= th[t].ticket

\* C7: whenever AddQuery calls, sequential or concurrent, have stored under
\* the same fingerprint, the store holds under it exactly the Dependencies
\* built from the request of the call that acquired the writer lock last
\* (its records are the ids of that call's result_hint alone: nothing of an
\* earlier record survives or is merged), and the store has no other keys
\* than the fingerprints stored.
C7_LastWriteWins ==
  /\ DOMAIN shapes = {th[t].shapeID : t \in {u \in Threads : th[u].pc \in {"stored", "done"}}}
  /\ \A f \in DOMAIN shapes :
       LET last == LastLocker(f)
       IN /\ shapes[f] = BuildDependencies(th[last].req, f)
          /\ shapes[f].Records = extractRecords(th[last].req)
          /\ shapes[f].Filters = extractFilters(th[last].req.Shape)

\* two callers have completed AddQuery for one fingerprint with different
\* tracked ids for the same model, the second caller having taken the lock
\* first, and the store holds the first caller's record
C7_Witness ==
  /\ th[1].pc = "done" /\ th[2].pc = "done"
  /\ th[1].shapeID = th[2].shapeID
  /\ th[2].ticket < th[1].ticket
  /\ \E M \in DOMAIN th[1].deps.Records \cap DOMAIN th[2].deps.Records :
       Range(th[1].deps.Records[M]) \cap Range(th[2].deps.Records[M]) = {}
  /\ shapes[th[1].shapeID] = th[1].deps

(***************************************************************************)
(* C8  Unknown fingerprint in explain mode                                 *)
(***************************************************************************)
\* C8: ExplainInvalidation for a fingerprint that has no record in the
\* store answers invalidate = false with an empty reasons list, for every
\* mutation.
C8_UnknownShapeExplain ==
  (Returned("ExplainInvalidation") /\ ret.req.ShapeID \notin DOMAIN shapes) =>
    ret.resp = [Invalidate |-> FALSE, Reasons |-> << >>]

\* an explanation asked for an unknown fingerprint while the same mutation
\* does invalidate a stored one
C8_Witness ==
  /\ Returned("ExplainInvalidation")
  /\ ret.req.ShapeID \notin DOMAIN shapes
  /\ ~ret.resp.Invalidate
  /\ \E g \in DOMAIN shapes :
       ExplainResponse([Mutation |-> ret.req.Mutation, ShapeID |-> g]).Invalidate

(***************************************************************************)
(* C9  Record extraction                                                   *)
(***************************************************************************)
\* C9: the Dependencies returned by AddQuery has, for each model named in
\* result_hint with at least one row carrying an id, a records entry
\* listing those rows' ids in row order (and no other entry); without a
\* result_hint, records is empty.
C9_RecordExtraction ==
  Returned("AddQuery") =>
    LET records == ret.resp.Dependencies.Records
    IN IF ~Has(ret.req, "ResultHint") THEN records = EmptyMap
       ELSE /\ \A M \in DOMAIN ret.req.ResultHint :
                 RowIDs(ret.req.ResultHint[M]) # << >> =>
                   (M \in DOMAIN records /\ records[M] = RowIDs(ret.req.ResultHint[M]))
            /\ \A M \in DOMAIN records :
                 M \in DOMAIN ret.req.ResultHint /\ RowIDs(ret.req.ResultHint[M]) # << >>

(***************************************************************************)
(* C10  Include extraction                                                 *)
(***************************************************************************)
\* C10: the includes list of the Dependencies returned by AddQuery holds
\* exactly the Include nodes of the statement that carry a kind, collected
\* from every nesting depth.
C10_IncludeExtraction ==
  Returned("AddQuery") =>
    Range(ret.resp.Dependencies.Includes) =
      {n \in StatementIncludes(ret.req.Shape) : Has(n, "Kind")}

(***************************************************************************)
(* C11  Group extraction                                                   *)
(***************************************************************************)
\* C11: the Dependencies AddQuery returns and stores has group_by populated
\* with the statement's grouping field names exactly when the statement has
\* a group_by.
C11_GroupExtraction ==
  Returned("AddQuery") =>
    LET deps == ret.resp.Dependencies
        stored == shapes[ret.resp.ShapeID]
    IN IF Has(ret.req.Shape, "GroupBy")
       THEN /\ Has(deps, "GroupBy") /\ deps.GroupBy.Keys = ret.req.Shape.GroupBy
            /\ Has(stored, "GroupBy") /\ stored.GroupBy.Keys = ret.req.Shape.GroupBy
       ELSE ~Has(deps, "GroupBy") /\ ~Has(stored, "GroupBy")

(***************************************************************************)
(* C12  Diagnostic-field invariance                                        *)
(***************************************************************************)
\* the statement without its diagnostic fields
StripDiagnostics(stmt) ==
  [k \in DOMAIN stmt \ {"ORMVersion", "SDKVersion"} |-> stmt[k]]

\* C12: two Statements that differ only in orm_version / sdk_version have
\* the same CanonicalizeQueryShape string and the same computed shape id.
C12_DiagnosticInvariance ==
  (Returned("ComputeShapeID") /\ DefaultShapeID) =>
    \A s2 \in ShapeStatements :
      StripDiagnostics(s2) = StripDiagnostics(ret.req) =>
        /\ CanonicalizeQueryShape(s2) = CanonicalizeQueryShape(ret.req)
        /\ ComputeQueryShapeID(s2) = ret.resp.ShapeID

(***************************************************************************)
(* C13  Key independence                                                   *)
(***************************************************************************)
\* v and w are the same value up to the insertion order of object keys, at
\* every nesting level
RECURSIVE SameValue(_, _)
SameValue(v, w) ==
  IF v.t # w.t THEN FALSE
  ELSE CASE v.t = "obj" ->
              /\ {p[1] : p \in Range(v.kv)} = {p[1] : p \in Range(w.kv)}
              /\ \A p \in Range(v.kv) : \A q \in Range(w.kv) :
                    p[1] = q[1] => SameValue(p[2], q[2])
         [] v.t = "arr" ->
              /\ Len(v.el) = Len(w.el)
              /\ \A i \in 1..Len(v.el) : SameValue(v.el[i], w.el[i])
         [] OTHER -> v = w

\* the compact JSON text of v with object keys in ascending lexicographic
\* order at every level and array elements in their order
RECURSIVE AscendingTokens(_)
AscendingTokens(v) ==
  CASE v.t = "arr" ->
         <<Punct("[")>>
         \o Flatten([i \in 1..Len(v.el) |-> AscendingTokens(v.el[i])], <<Punct(",")>>)
         \o <<Punct("]")>>
    [] v.t = "obj" ->
         LET keys == {p[1] : p \in Range(v.kv)}
             member(k) == (CHOOSE p \in Range(v.kv) : p[1] = k)[2]
             order == CHOOSE o \in [1..Cardinality(keys) -> keys] :
                        \A i, j \in 1..Cardinality(keys) : i < j => KeyLess(o[i], o[j])
         IN <<Punct("{")>>
            \o Flatten([i \in 1..Cardinality(keys) |->
                   <<StrTok(order[i]), Punct(":")>> \o AscendingTokens(member(order[i]))],
                 <<Punct(",")>>)
            \o <<Punct("}")>>
    [] OTHER -> marshalTokens(v)

\* the canonicalizer a return value came from
CanonicalOf(op, v) == IF op = "Canonicalize" THEN Canonicalize(v) ELSE canonicalize(v)

\* C13: the canonical string of a value has its object keys in ascending
\* lexicographic order at every nesting level and its array elements in
\* their order, and every value that differs from it only in key insertion
\* order canonicalizes to the same string.
C13_KeyIndependence ==
  (Returned("Canonicalize") \/ Returned("canonicalize")) =>
    /\ ret.resp = TokensText(AscendingTokens(ret.req))
    /\ \A w \in CanonValues :
         SameValue(w, ret.req) => CanonicalOf(ret.op, w) = ret.resp

Fingerprint ==
  [g \in Generators |->
     [stmt \in ShapeStatements |->
        IF g = << >> THEN ComputeQueryShapeID(stmt) ELSE ApplyGenerator(g[1], stmt)]]

\* C15: in every engine state (whatever the store, the schema and the call
\* log hold) ComputeShapeID returns for a statement the one id that is a
\* function of the statement, and AddQuery on the statement returns that id
\* as ShapeID and as Dependencies.ShapeID (and stores the record under it).
C15_FingerprintStateIndependent ==
  /\ Returned("ComputeShapeID") =>
        ret.resp.ShapeID = Fingerprint[config.ShapeIDGenerator][ret.req]
  /\ Returned("AddQuery") =>
        LET id == Fingerprint[config.ShapeIDGenerator][ret.req.Shape]
        IN /\ ret.resp.ShapeID = id
           /\ ret.resp.Dependencies.ShapeID = id
           /\ id \in DOMAIN shapes /\ shapes[id].ShapeID = id

\* ComputeShapeID returned, with the default computation, for a statement
\* whose record an earlier AddQuery stored under the same id, with a schema
\* set and the statement already in the call log
C15_Witness ==
  /\ Returned("ComputeShapeID") /\ DefaultShapeID
  /\ schema # << >>
  /\ ret.resp.ShapeID \in DOMAIN ret.before.shapes
  /\ config.TrackCalls
  /\ Len(calls.ComputeShapeID) >= 2
  /\ \A i \in 1..Len(calls.ComputeShapeID) : calls.ComputeShapeID[i] = ret.req
  /\ Len(calls.AddQuery) >= 1

(***************************************************************************)
(* C16  Fingerprint wire format                                            *)
(***************************************************************************)
LowerHex ==
  {"0", "1", "2", "3", "4", "5", "6", "7", "8", "9", "a", "b", "c", "d", "e", "f"}

\* C16: the id computed for a canonical string (the empty string included)
\* has exactly 66 characters: "s_" followed by 64 lowercase hexadecimal
\* characters.
C16_WireFormat ==
  (Returned("tests.ComputeShapeID") \/ Returned("computeShapeId")) =>
    LET c == ShapeIDChars(ret.req)
    IN /\ ret.resp = JoinStr(c, "")
       /\ Len(ret.resp) = 66
       /\ Len(c) = 66
       /\ c[1] = "s" /\ c[2] = "_"
       /\ \A i \in 3..Len(c) : c[i] \in LowerHex

\* the id of the empty string, whose digest has a byte below 16 (written
\* with its leading zero) and a byte whose two digits are letters
C16_Witness ==
  /\ Returned("tests.ComputeShapeID")
  /\ ret.req = ""
  /\ Len(ret.resp) = 66
  /\ \E k \in 1..32 : Sum256(ret.req)[k] < 16
  /\ \E k \in 1..32 : HexByte(Sum256(ret.req)[k]) \in {<<x, y>> : x, y \in {"a", "b", "c", "d", "e", "f"}}

(***************************************************************************)
(* C17  Shape id pattern in ValidateDependencies                           *)
(***************************************************************************)
\* ^s_[0-9a-f]{64}$
MatchesShapeIDPattern(id) ==
  /\ Len(id) = Len(ShapeIDPrefix) + ShapeIDHexLength
  /\ SubSeq(id, 1, Len(ShapeIDPrefix)) = ShapeIDPrefix
  /\ \A i \in (Len(ShapeIDPrefix) + 1)..Len(id) : id[i] \in HexAlphabet

ShapeIDPatternError ==
  ValidationError("shapeId must match pattern ^s_[0-9a-f]{64}$", "dependencies.shapeId")

\* C17: ValidateDependencies accepts a shapeId if and only if it matches
\* ^s_[0-9a-f]{64}$; every other shapeId, one of length 66 with prefix s_
\* and non-hex characters included, is rejected with the shapeId pattern
\* error.
C17_ShapeIDPattern ==
  (Returned("ValidateDependencies") /\ ret.req # << >>) =>
    (ret.resp = ShapeIDPatternError) = ~MatchesShapeIDPattern(ret.req[1].ShapeID)

(***************************************************************************)
(* C18  Action invariants of a Change                                      *)
(***************************************************************************)
NonEmptySets(change) == Has(change, "Sets") /\ change.Sets # << >>

\* insert: non-empty sets, no where; update: non-empty sets and a where;
\* delete: no sets and a where
ActionInvariant(change) ==
  /\ change.Action \in {"insert", "update", "delete"}
  /\ change.Action = "insert" => NonEmptySets(change) /\ ~Has(change, "Where")
  /\ change.Action = "update" => NonEmptySets(change) /\ Has(change, "Where")
  /\ change.Action = "delete" => ~NonEmptySets(change) /\ Has(change, "Where")

\* C18: ValidateMutationEvent accepts a Change only if its action is insert,
\* update or delete and it keeps the invariant of its action; a Mutation one
\* of whose changes breaks these rules is rejected, wherever the change
\* stands in the list.
C18_ActionInvariants ==
  (Returned("ValidateMutationEvent") /\ ret.req # << >> /\ Has(ret.req[1], "Changes")) =>
    LET changes == ret.req[1].Changes
    IN /\ ret.resp = NoError => \A i \in 1..Len(changes) : ActionInvariant(changes[i])
       /\ (\E i \in 1..Len(changes) : ~ActionInvariant(changes[i])) => ret.resp # NoError

\* a mutation rejected for its second change, a delete that carries sets,
\* after a first change that keeps the rules
C18_Witness ==
  /\ Returned("ValidateMutationEvent")
  /\ ret.req # << >>
  /\ Has(ret.req[1], "Changes")
  /\ Len(ret.req[1].Changes) = 2
  /\ ActionInvariant(ret.req[1].Changes[1])
  /\ ret.req[1].Changes[2].Action = "delete"
  /\ NonEmptySets(ret.req[1].Changes[2])
  /\ ret.resp = ValidationError("delete cannot have set clause", "mutation.changes[1].set")

(***************************************************************************)
(* C19  Pagination exclusivity                                             *)
(***************************************************************************)
Forward(p) == Has(p, "First") \/ Has(p, "After")

Backward(p) == Has(p, "Last") \/ Has(p, "Before")

MixedPagination(stmt) ==
  Has(stmt, "Pagination") /\ Forward(stmt.Pagination) /\ Backward(stmt.Pagination)

\* C19: ValidateQueryShape rejects every Statement whose pagination
\* populates a forward parameter (first or after) together with a backward
\* parameter (last or before): first+last, first+before, after+last and
\* after+before.
C19_PaginationExclusive ==
  (Returned("ValidateQueryShape") /\ ret.req # << >> /\ MixedPagination(ret.req[1])) =>
    ret.resp # NoError

\* a statement with only the two cursors, after and before, rejected for
\* mixing the directions
C19_Witness ==
  /\ Returned("ValidateQueryShape")
  /\ ret.req # << >>
  /\ Has(ret.req[1], "Pagination")
  /\ DOMAIN ret.req[1].Pagination = {"After", "Before"}
  /\ ret.resp = ValidationError(
       "cannot mix forward pagination (first/after) with backward pagination (last/before)",
       "statement.pagination")

(***************************************************************************)
(* C20  Numeric bounds                                                     *)
(***************************************************************************)
RECURSIVE QueriesOfInclude(_)
\* the queries of an include and of the includes nested in it, at any depth
QueriesOfInclude(include) ==
  (IF Has(include, "Query") THEN {include.Query} ELSE {})
  \cup (IF Has(include, "Includes")
        THEN UNION {QueriesOfInclude(include.Includes[i]) : i \in 1..Len(include.Includes)}
        ELSE {})

RECURSIVE KindsOfInclude(_)
KindsOfInclude(include) ==
  (IF Has(include, "Kind") THEN {include.Kind} ELSE {})
  \cup (IF Has(include, "Includes")
        THEN UNION {KindsOfInclude(include.Includes[i]) : i \in 1..Len(include.Includes)}
        ELSE {})

\* every query of a statement: the top-level one and those of its includes
QueriesOf(stmt) ==
  (IF Has(stmt, "Query") THEN {stmt.Query} ELSE {})
  \cup (IF Has(stmt, "Includes")
        THEN UNION {QueriesOfInclude(stmt.Includes[i]) : i \in 1..Len(stmt.Includes)}
        ELSE {})

NegativeBound(q) ==
  \/ Has(q, "Limit") /\ q.Limit < 0
  \/ Has(q, "Offset") /\ q.Offset < 0

NonPositivePage(stmt) ==
  /\ Has(stmt, "Pagination")
  /\ \/ Has(stmt.Pagination, "First") /\ stmt.Pagination.First <= 0
     \/ Has(stmt.Pagination, "Last") /\ stmt.Pagination.Last <= 0

ZeroBound(q) ==
  \/ Has(q, "Limit") /\ q.Limit = 0
  \/ Has(q, "Offset") /\ q.Offset = 0

\* nothing but the numeric fields could make the validator reject stmt
OtherwiseValid(stmt) ==
  /\ \A q \in QueriesOf(stmt) : q.Model # "" /\ DOMAIN q \subseteq {"Model", "Limit", "Offset"}
  /\ ~MixedPagination(stmt)
  /\ DOMAIN stmt \subseteq {"Query", "Pagination", "Includes"}
  /\ Has(stmt, "Includes") =>
       \A i \in 1..Len(stmt.Includes) :
         KindsOfInclude(stmt.Includes[i]) \subseteq {"some", "every", "none"}

\* C20: ValidateQueryShape rejects a Statement if a query in it (the
\* top-level query or the query of an include at any depth) has a negative
\* limit or offset, or if pagination first or last is zero or negative; a
\* limit or offset of zero is accepted.
C20_NumericBounds ==
  (Returned("ValidateQueryShape") /\ ret.req # << >>) =>
    LET stmt == ret.req[1]
        violation == (\E q \in QueriesOf(stmt) : NegativeBound(q)) \/ NonPositivePage(stmt)
    IN /\ violation => ret.resp # NoError
       /\ (OtherwiseValid(stmt) /\ ~violation /\ \E q \in QueriesOf(stmt) : ZeroBound(q))
            => ret.resp = NoError

\* a statement rejected for the negative limit of an include nested two
\* levels below a query whose limit and offset of zero passed
C20_Witness ==
  /\ Returned("ValidateQueryShape")
  /\ ret.req # << >>
  /\ Has(ret.req[1], "Query")
  /\ ZeroBound(ret.req[1].Query)
  /\ ret.resp = ValidationError("limit must be non-negative",
                                "statement.includes[0].includes[0].includes[0].query.limit")

(***************************************************************************)
(* C21  Query presence                                                     *)
(***************************************************************************)
\* C21: ValidateQueryShape accepts a Statement only if its Query is present
\* and has a non-empty model; a nil Statement, a Statement with no Query
\* and a Statement whose Query.Model is empty are each rejected.
C21_QueryRequired ==
  (Returned("ValidateQueryShape") /\ ret.resp = NoError) =>
    /\ ret.req # << >>
    /\ Has(ret.req[1], "Query")
    /\ ret.req[1].Query.Model # ""

(***************************************************************************)
(* C22  Operator invariant                                                 *)
(***************************************************************************)
\* the fixed set of operators (schema README, Condition.Op)
EnumeratedOps ==
  { "eq", "ne", "in", "notIn", "isNull" }
  \cup { "gt", "gte", "lt", "lte", "between" }
  \cup { "contains", "startsWith", "endsWith", "like", "ilike", "regex" }
  \cup { "has", "hasSome", "hasEvery", "jsonContains" }
  \cup { "lenEq", "lenGt", "lenLt" }
  \cup { "exists" }

AllowedOp(op) == op \in EnumeratedOps \/ IsCustomOp(op)

RECURSIVE ConditionsOfFilter(_)
\* the conditions of a filter tree, under and/or/not at any depth
ConditionsOfFilter(filter) ==
  (IF Has(filter, "Conditions")
   THEN {filter.Conditions[i] : i \in 1..Len(filter.Conditions)} ELSE {})
  \cup (IF Has(filter, "And")
        THEN UNION {ConditionsOfFilter(filter.And[i]) : i \in 1..Len(filter.And)} ELSE {})
  \cup (IF Has(filter, "Or")
        THEN UNION {ConditionsOfFilter(filter.Or[i]) : i \in 1..Len(filter.Or)} ELSE {})
  \cup (IF Has(filter, "Not") THEN ConditionsOfFilter(filter.Not) ELSE {})

\* the conditions of a statement: of the where of every query and of having
ConditionsOfStatement(stmt) ==
  UNION {ConditionsOfFilter(q.Where) : q \in {x \in QueriesOf(stmt) : Has(x, "Where")}}
  \cup (IF Has(stmt, "Having") THEN ConditionsOfFilter(stmt.Having) ELSE {})

\* the conditions of a mutation: of the where of every change
ConditionsOfMutation(event) ==
  UNION {ConditionsOfFilter(event.Changes[i].Where) :
           i \in {j \in 1..Len(event.Changes) : Has(event.Changes[j], "Where")}}

\* the request is one whose only possible defect is an operator name
OperatorCase ==
  \/ Returned("ValidateQueryShape") /\ ret.req \in {<<st>> : st \in FilterStatements}
  \/ Returned("ValidateMutationEvent") /\ ret.req \in {<<e>> : e \in FilterMutations}

ConditionsOfRequest ==
  IF Returned("ValidateQueryShape") THEN ConditionsOfStatement(ret.req[1])
  ELSE ConditionsOfMutation(ret.req[1])

\* C22: a Condition anywhere in a filter tree (under and/or/not at any
\* depth, in where, in having or in a change's where) is accepted if and
\* only if its op is one of the 24 enumerated operators or starts with
\* "custom:"; any other operator name makes the validator reject the whole
\* Statement or Mutation.
C22_OperatorInvariant ==
  /\ Cardinality(EnumeratedOps) = 24
  /\ ((Returned("ValidateQueryShape") /\ ret.req # << >>) =>
        ((\E c \in ConditionsOfStatement(ret.req[1]) : ~AllowedOp(c.Op))
           => ret.resp # NoError))
  /\ ((Returned("ValidateMutationEvent") /\ ret.req # << >> /\ Has(ret.req[1], "Changes")) =>
        ((\E c \in ConditionsOfMutation(ret.req[1]) : ~AllowedOp(c.Op))
           => ret.resp # NoError))
  /\ OperatorCase =>
       (ret.resp = NoError) = (\A c \in ConditionsOfRequest : AllowedOp(c.Op))

\* a statement rejected for an operator off the pattern three levels down
\* its where, after a condition that is valid
C22_Witness ==
  /\ Returned("ValidateQueryShape")
  /\ OperatorCase
  /\ ret.resp = ValidationError("invalid operator: bogus",
                                "statement.query.where.and[0].or[0].not.atoms[1].op")

(***************************************************************************)
(* C23  Cross-implementation agreement on invalidation                     *)
(***************************************************************************)
\* C23: the Go engine and the TypeScript engine, given the same AddQuery
\* requests (rows whose id is null or missing included) and then the same
\* Mutation, return the same set of fingerprints to evict.  The call log
\* holds the requests the Go engine was given.
C23_CrossAgreement ==
  Returned("Invalidate") =>
    Range(ret.resp.Evict) = Range(invalidateTS(ShapesTS(calls.AddQuery), ret.req))

(***************************************************************************)
(* C24  Custom evict list                                                  *)
(***************************************************************************)
\* the list of the most recent SetEvictList, when it is not empty
CustomListSet == config.EvictBehavior = "custom" /\ config.CustomEvictList # << >>

\* C24: after SetEvictList(L) with a non-empty L, every later Invalidate
\* returns exactly L, in the same order, whatever the mutation and whatever
\* the store holds: SetEvictList installs L, nothing but SetEvictList
\* changes what is installed, and Invalidate returns the installed list.
C24_CustomEvictList ==
  /\ []((Returned("SetEvictList") /\ ret.req # << >>) =>
          (CustomListSet /\ config.CustomEvictList = ret.req))
  /\ [][config' # config => ret'.op = "SetEvictList"]_vars
  /\ []((Returned("Invalidate") /\ CustomListSet) =>
          ret.resp.Evict = config.CustomEvictList)
  /\ [](CustomListSet =>
          \A mutation \in Mutations : InvalidateEvict(mutation) = {config.CustomEvictList})

\* an Invalidate that returned the custom list over a store whose records
\* for the changed models belong to other fingerprints
C24_Witness ==
  /\ Returned("Invalidate")
  /\ CustomListSet
  /\ ret.resp.Evict = config.CustomEvictList
  /\ TrackedHits(shapes, ret.req) # {}
  /\ TrackedHits(shapes, ret.req) # Range(config.CustomEvictList)

(***************************************************************************)
(* C25  Call tracking                                                      *)
(***************************************************************************)
\* the log after one more call of `method` with argument arg
Logged(log, method, arg) == [log EXCEPT ![method] = Append(@, arg)]

\* C25: with TrackCalls enabled the call log holds, per method, exactly the
\* calls made since the engine was created or last Reset: it starts empty,
\* every call appends its argument to the list of its method and to no
\* other list, except that AddQuery also appends its statement to the
\* ComputeShapeID list, and Reset leaves every list empty, its own included.
C25_CallTracking ==
  /\ Returned("NewMockEngine") => calls = NoCalls
  /\ [][config.TrackCalls =>
          CASE ret'.op = "AddQuery" ->
                 calls' = Logged(Logged(calls, "AddQuery", ret'.req),
                                 "ComputeShapeID", ret'.req.Shape)
            [] ret'.op = "Reset" -> calls' = NoCalls
            [] ret'.op \in {"SetSchema", "ComputeShapeID", "Invalidate",
                            "ExplainInvalidation", "GetVersion"} ->
                 calls' = Logged(calls, ret'.op, ret'.req)
            [] OTHER -> calls' = calls]_vars
  /\ [](Returned("GetCalls") => ret.resp = calls)

\* a log read after an AddQuery, a ComputeShapeID and an Invalidate
C25_Witness ==
  /\ Returned("GetCalls")
  /\ config.TrackCalls
  /\ Len(ret.resp.AddQuery) = 1
  /\ Len(ret.resp.ComputeShapeID) = 2
  /\ Len(ret.resp.Invalidate) = 1
  /\ ret.resp.Reset = << >>

(***************************************************************************)
(* C26  Filter-crossing reason is model-scoped                             *)
(***************************************************************************)
\* the models the stored filters of fingerprint f reference: a filter is
\* the where or the having of a statement and its conditions name fields of
\* the statement's model
FilterModels(f) ==
  {stmt.Query.Model :
     stmt \in {x \in Statements : /\ RealShapeID[x] = f
                                  /\ Has(x, "Query")
                                  /\ extractFilters(x) # << >>}}

\* C26: ExplainInvalidation reports filter_dependency for a stored record
\* only when one of the record's stored filters references the model of a
\* change of the mutation; a change on a model that no stored filter
\* references never yields filter_dependency.
C26_FilterReasonModelScoped ==
  (/\ Returned("ExplainInvalidation")
   /\ DefaultShapeID
   /\ ret.req.ShapeID \in DOMAIN shapes
   /\ "filter_dependency" \in Range(ret.resp.Reasons))
    => ChangedModels(ret.req.Mutation) \cap FilterModels(ret.req.ShapeID) # {}

(***************************************************************************)
(* C27  Empty record lists are never stored                                *)
(***************************************************************************)
NoEmptyList(records) == \A M \in DOMAIN records : records[M] # << >>

\* C27: in every reachable state no stored Dependencies record has a
\* records entry whose id list is empty; a model present in result_hint
\* with no id-bearing rows gets no records key at all (in the TypeScript
\* engine's extraction as well).
C27_NoEmptyRecordLists ==
  /\ \A f \in DOMAIN shapes : NoEmptyList(shapes[f].Records)
  /\ Returned("AddQuery") =>
       /\ NoEmptyList(ret.resp.Dependencies.Records)
       /\ NoEmptyList(extractRecordsTS(ret.req))

\* a stored record for a statement whose model is in the hint with rows,
\* none of which carries an id
C27_Witness ==
  /\ Returned("AddQuery")
  /\ Has(ret.req, "ResultHint")
  /\ Has(ret.req.Shape, "Query")
  /\ ret.req.Shape.Query.Model \in DOMAIN ret.req.ResultHint
  /\ ret.req.ResultHint[ret.req.Shape.Query.Model] # << >>
  /\ ret.resp.ShapeID \in DOMAIN shapes
  /\ shapes[ret.resp.ShapeID].Records = EmptyMap

(***************************************************************************)
(* C30  Reset leaves the eviction configuration unchanged                  *)
(***************************************************************************)
\* C30: Reset clears only the store, the schema and the call log: the
\* configuration is the one it found, so with a custom list L installed
\* Invalidate returns L after Reset although the store is empty; with no
\* custom list, Invalidate returns an empty evict list for every mutation
\* while the store is empty, and only AddQuery ends that.
C30_ResetKeepsEvictConfig ==
  /\ [][ret'.op = "Reset" => config' = config]_vars
  /\ []((Returned("Reset") /\ CustomListSet) =>
          /\ shapes = EmptyMap
          /\ \A mutation \in Mutations :
               InvalidateEvict(mutation) = {config.CustomEvictList})
  /\ []((shapes = EmptyMap /\ ~CustomListSet) =>
          /\ \A mutation \in Mutations : InvalidateEvict(mutation) = {<< >>}
          /\ Returned("Invalidate") => ret.resp.Evict = << >>)
  /\ [][(shapes = EmptyMap /\ shapes' # EmptyMap) => ret'.op = "AddQuery"]_vars

\* a Reset that emptied a store while a custom list was installed
C30_Witness ==
  /\ Returned("Reset")
  /\ CustomListSet
  /\ ret.before.shapes # EmptyMap
  /\ shapes = EmptyMap
  /\ \A mutation \in Mutations : InvalidateEvict(mutation) = {config.CustomEvictList}

(***************************************************************************)
(* C28  Single-writer discipline                                           *)
(***************************************************************************)
\* caller t is between the read and the write of an append to m.calls
WritingCalls(t) == th[t].pc = "logging"

\* C28: every write of a shared field of the engine is made while its
\* caller holds the exclusive writer lock, so no two concurrent calls can
\* be writing the same field at the same time.
C28_SingleWriter ==
  /\ \A t \in Threads : WritingCalls(t) => mu.writer = t
  /\ \A t, u \in Threads : (WritingCalls(t) /\ WritingCalls(u)) => t = u

(***************************************************************************)
(* C29  Snapshot scans                                                     *)
(***************************************************************************)
\* the fingerprints a scan of the store `store` returns for the mutation
ScanOf(store, mutation) ==
  {shapeID \in DOMAIN store :
     \E i \in 1..Len(mutation.Changes) :
        shouldInvalidate(mutation.Changes[i], store[shapeID])}

NoDuplicates(seq) == \A i, j \in 1..Len(seq) : seq[i] = seq[j] => i = j

====
